---- MODULE Spec2Model ----
(***************************************************************************)
(* HR metrics dashboard (thebizzarch/SOJ_internal_website).                *)
(*                                                                         *)
(* The module models the dashboard's main module (global state, the filter *)
(* / refresh / upload / toggle handlers, initializeEmployeeCharts and      *)
(* updateEmployeeSummary), the aggregation of data-processor.js, the       *)
(* week-range utilities and the debounce / chart-data cache of             *)
(* chart-renderer.js.                                                      *)
(*                                                                         *)
(* Conventions.                                                            *)
(*  - A JavaScript string is a TLA+ string; where the code does character  *)
(*    work on it (User, 'Week Range', employee names) the work is done on  *)
(*    Chars[s], its sequence of one-character strings, and a computed      *)
(*    string (an employee key) is such a sequence.                         *)
(*  - Money is counted in cents, so that 16.50 is 1650 and hours * rate is *)
(*    exact; hours are whole numbers.                                      *)
(*  - A row is a record with the fields User, WeekRange, oid (the identity *)
(*    of the parsed object: the parse that created it) and hrs, the value  *)
(*    of each task column of the CSV header.                               *)
(***************************************************************************)
EXTENDS Integers, Sequences, FiniteSets, TLC

VARIABLES
  employeesData,          \* loading-state.js:586
  filteredEmployeesData,  \* loading-state.js:587
  activeStartWeek,        \* loading-state.js:588
  activeEndWeek,          \* loading-state.js:589
  globalDisplayMode,      \* loading-state.js:596
  globalLevelMode,        \* loading-state.js:599
  chartDataCache,         \* chart-renderer.js:41
  charts,                 \* chart-renderer.js:16: the chart objects that exist
  rendered,               \* what the last updateAllEmployeeCharts wrote, per tab
  renderLog,              \* the row sets the last updateAllEmployeeCharts saw
  env,                    \* the page and the engine: see EnvChoices
  fetches,                \* fetchEmployeeData calls in flight
  fetchSeq,               \* number of fetchEmployeeData calls started
  committedBy,            \* the fetch whose result employeesData holds
  now,                    \* debounce: the clock, in ms
  timeout,                \* debounce: the pending timer of debouncedUpdateChart
  calls,                  \* debounce: the updateChartData calls made
  execs,                  \* debounce: the runs of the debounced function
  chartData,              \* debounce: chart.data of every chart
  filterState,            \* the filter fields of dashboardState.state
  filterCalls,            \* the calls of the filter functions made, with results
  comparedLabels,               \* week-range labels handed to compareWeekRanges
  comparisons,            \* what compareWeekRanges returned for them
  percentCall,            \* the last call of a pie data function, with its output
  colorCaches,            \* chart-renderer.js:10-13: the four color caches
  utilColorCaches,        \* errors.js:340-343: the four color caches of color-utils
  listening,              \* the handlers of initializeFilterControls are registered
  colorLookups,           \* the calls of the color getters made, with what they returned
  rowCall,                \* the last call of an aggregation function on loose rows
  snapshot,               \* localStorage['hr_dashboard_data_cache'], parsed
  clock,                  \* Date.now(), in hours
  fetchCall,              \* the last call of the caching fetchEmployeeData
  totalsCall,             \* the last call of calculateTotalsByCategory and ByType
  windowDataSourceConnected, \* window.dataSourceConnected (data-processor.js:331, 335)
  dataSourceConnected,    \* loading-state.js:593: the module's own dataSourceConnected
  autoRefreshIntervalId,  \* loading-state.js:592: 0 for null
  intervals,              \* the intervals setInterval has installed and nothing cleared
  elements,               \* display-mode-selector.js:26-29: the values of the two controls
  dashboardModes,         \* dashboardState.state: its displayMode and levelMode, and
                          \* the number of calls of notifyListeners
  selectorCall            \* the last operation of the DisplayModeSelector

dashVars == <<employeesData, filteredEmployeesData, activeStartWeek, activeEndWeek,
              globalDisplayMode, globalLevelMode, chartDataCache, charts,
              rendered, renderLog, env, fetches, fetchSeq, committedBy>>
debVars == <<now, timeout, calls, execs, chartData>>
filterVars == <<filterState, filterCalls, comparedLabels, comparisons>>
pieVars == <<percentCall>>
colorVars == <<colorCaches, utilColorCaches, listening, colorLookups>>
fetchVars == <<snapshot, clock, fetchCall>>
refreshVars == <<windowDataSourceConnected, dataSourceConnected, autoRefreshIntervalId,
                 intervals>>
selectorVars == <<elements, dashboardModes, selectorCall>>
tailVars == <<totalsCall, refreshVars, selectorVars>>
lateVars == <<rowCall, fetchVars, tailVars>>
utilVars == <<filterVars, pieVars, colorVars, lateVars>>
vars == <<dashVars, debVars, utilVars>>

-----------------------------------------------------------------------------
(* Bounds *)

MaxRows == 2
MaxFetches == 3
MaxCalls == 3
MaxTicks == 12
MaxFilterCalls == 2
\* new Date().getFullYear() at the time of the run
CurrentYear == 2026

-----------------------------------------------------------------------------
(* JavaScript values *)

\* A JavaScript number that may be NaN (a time value, a comparator result) is
\* <<n>>, and NaN is <<>>; a match result that may be null is <<>> when null
NaN == <<>>
NULL == <<>>
Num(n) == <<n>>

RECURSIVE SumSeq(_)
SumSeq(s) == IF s = <<>> THEN 0 ELSE Head(s) + SumSeq(Tail(s))

Range(s) == {s[i] : i \in DOMAIN s}

\* Array.prototype.indexOf, 0-based, -1 when absent
IndexOf(s, x) ==
  IF \E i \in DOMAIN s : s[i] = x
  THEN (CHOOSE i \in DOMAIN s : s[i] = x /\ \A j \in 1..(i - 1) : s[j] # x) - 1
  ELSE -1

RECURSIVE UniqueSeq(_)
\* [...new Set(s)]: the distinct elements in first-occurrence order
UniqueSeq(s) ==
  IF s = <<>> THEN <<>>
  ELSE LET init == UniqueSeq(SubSeq(s, 1, Len(s) - 1))
           last == s[Len(s)]
       IN IF last \in Range(init) THEN init ELSE Append(init, last)

\* x placed before the first element it sorts strictly before, else last
InsertSorted(s, x, cmp) ==
  LET before == {i \in DOMAIN s : cmp[<<x, s[i]>>] < 0}
      k == IF before = {} THEN Len(s) + 1
           ELSE CHOOSE i \in before : \A j \in before : i <= j
  IN SubSeq(s, 1, k - 1) \o <<x>> \o SubSeq(s, k, Len(s))

\* Array.prototype.sort(compareFn) for a consistent comparator, given as the
\* function cmp on pairs of elements: stable (ES2019); a comparator result of
\* NaN counts as +0 (the caller maps it to 0)
StableSort(s, cmp) ==
  LET F[i \in 0..Len(s)] ==
        IF i = 0 THEN <<>> ELSE InsertSorted(F[i - 1], s[i], cmp)
  IN F[Len(s)]

-----------------------------------------------------------------------------
(* Strings as character sequences *)

UpperChars == <<"A","B","C","D","E","F","G","H","I","J","K","L","M",
                "N","O","P","Q","R","S","T","U","V","W","X","Y","Z">>
LowerChars == <<"a","b","c","d","e","f","g","h","i","j","k","l","m",
                "n","o","p","q","r","s","t","u","v","w","x","y","z">>
DigitChars == <<"0","1","2","3","4","5","6","7","8","9">>

DigitVal(c) == IndexOf(DigitChars, c)

\* String.prototype.toLowerCase
ToLowerCase(s) ==
  [i \in DOMAIN s |->
     IF s[i] \in Range(UpperChars) THEN LowerChars[IndexOf(UpperChars, s[i]) + 1]
     ELSE s[i]]

\* String.prototype.includes
Includes(s, sub) ==
  \E i \in 0..(Len(s) - Len(sub)) : SubSeq(s, i + 1, i + Len(sub)) = sub

\* s.split('@')[0]
SplitAtFirst(s) ==
  IF \E i \in DOMAIN s : s[i] = "@"
  THEN SubSeq(s, 1, (CHOOSE i \in DOMAIN s :
                        s[i] = "@" /\ \A j \in 1..(i - 1) : s[j] # "@") - 1)
  ELSE s

RECURSIVE ParseInt(_)
\* parseInt of a run of decimal digits
ParseInt(ds) ==
  IF ds = <<>> THEN 0
  ELSE 10 * ParseInt(SubSeq(ds, 1, Len(ds) - 1)) + DigitVal(ds[Len(ds)])

-----------------------------------------------------------------------------
(* The string literals of the model and their characters *)

\* The dash of a week-range label is written "-": no code path looks at it.
Chars ==
  [s \in {"victoria", "kyle", "brooke", "melanie", "austin", "default",
          "kyle@x.com", "Bob@Kyle.org", "austin@kyle.io",
          "Mar 10 - Mar 15 (2025)", "Mar 17 - Mar 22 (2025)",
          "Dec 29 - Jan 3 (2024)", "all", "", "Kyle", "bob", "MAR 17",
          "Mar 10 - Mar 15", "2025-03-10", "March 10 - March 15 (2025)",
          "mar 10 - mar 15 (2025)"} |->
     CASE s = "victoria" -> <<"v","i","c","t","o","r","i","a">>
       [] s = "kyle" -> <<"k","y","l","e">>
       [] s = "brooke" -> <<"b","r","o","o","k","e">>
       [] s = "melanie" -> <<"m","e","l","a","n","i","e">>
       [] s = "austin" -> <<"a","u","s","t","i","n">>
       [] s = "default" -> <<"d","e","f","a","u","l","t">>
       [] s = "kyle@x.com" -> <<"k","y","l","e","@","x",".","c","o","m">>
       [] s = "Bob@Kyle.org" -> <<"B","o","b","@","K","y","l","e",".","o","r","g">>
       [] s = "austin@kyle.io" ->
            <<"a","u","s","t","i","n","@","k","y","l","e",".","i","o">>
       [] s = "Mar 10 - Mar 15 (2025)" ->
            <<"M","a","r"," ","1","0"," ","-"," ","M","a","r"," ","1","5"," ",
              "(","2","0","2","5",")">>
       [] s = "Mar 17 - Mar 22 (2025)" ->
            <<"M","a","r"," ","1","7"," ","-"," ","M","a","r"," ","2","2"," ",
              "(","2","0","2","5",")">>
       [] s = "Dec 29 - Jan 3 (2024)" ->
            <<"D","e","c"," ","2","9"," ","-"," ","J","a","n"," ","3"," ",
              "(","2","0","2","4",")">>
       [] s = "all" -> <<"a","l","l">>
       [] s = "" -> <<>>
       [] s = "Kyle" -> <<"K","y","l","e">>
       [] s = "bob" -> <<"b","o","b">>
       [] s = "MAR 17" -> <<"M","A","R"," ","1","7">>
       [] s = "Mar 10 - Mar 15" ->
            <<"M","a","r"," ","1","0"," ","-"," ","M","a","r"," ","1","5">>
       [] s = "2025-03-10" -> <<"2","0","2","5","-","0","3","-","1","0">>
       [] s = "March 10 - March 15 (2025)" ->
            <<"M","a","r","c","h"," ","1","0"," ","-"," ","M","a","r","c","h"," ",
              "1","5"," ","(","2","0","2","5",")">>
       [] s = "mar 10 - mar 15 (2025)" ->
            <<"m","a","r"," ","1","0"," ","-"," ","m","a","r"," ","1","5"," ",
              "(","2","0","2","5",")">>]

-----------------------------------------------------------------------------
(* Configuration: chart-renderer.js:852-967 (metrics-config) *)

\* Employee hourly rates, in cents
EMPLOYEE_RATES ==
  [n \in {"victoria", "kyle", "brooke", "melanie", "austin", "default"} |->
     CASE n = "victoria" -> 1650
       [] n = "kyle" -> 2000
       [] n = "brooke" -> 2500
       [] n = "melanie" -> 2500
       [] n = "austin" -> 3500
       [] n = "default" -> 2500]

\* Object.entries(TASK_CATEGORIES), in definition order
TASK_CATEGORIES ==
  << <<"Business Development",
       <<"BD - Research", "BD - Emailing", "BD - Calls", "BD - Internal Call">> >>,
     <<"Congress",
       <<"Congress - Research", "Congress - Emailing", "Congress - Calls",
         "Congress - Internal Call">> >>,
     <<"Social Media",
       <<"Social Management", "Social Content - Research",
         "Social Content - Scripting", "Social Content - Recording",
         "Social Content - Video Editing", "Social Content - Graphic Design",
         "Social - Internal Call">> >>,
     <<"Influencer", <<"Influencer Outreach", "Influencer - Internal Call">> >>,
     <<"Newsletter",
       <<"Newsletter - Writing/Editing", "Newsletter - Operations",
         "Newsletter - Internal Call">> >>,
     <<"Miscellaneous", <<"Misc. Content", "Misc. Research">> >>,
     <<"Internal Operations",
       <<"Internal Meetings", "Admin", "Operations", "Customer Support">> >>,
     <<"Advertising", <<"Ads">> >> >>

\* Object.keys(TASK_CATEGORIES)
CategoryNames == [i \in DOMAIN TASK_CATEGORIES |-> TASK_CATEGORIES[i][1]]

TASK_ORDER ==
  <<"BD - Research", "BD - Emailing", "BD - Calls", "BD - Internal Call",
    "Congress - Research", "Congress - Emailing", "Congress - Calls",
    "Congress - Internal Call",
    "Social Management", "Social Content - Research", "Social Content - Scripting",
    "Social Content - Recording", "Social Content - Video Editing",
    "Social Content - Graphic Design", "Social - Internal Call",
    "Influencer Outreach", "Influencer - Internal Call",
    "Newsletter - Writing/Editing", "Newsletter - Operations",
    "Newsletter - Internal Call",
    "Misc. Content", "Misc. Research",
    "Internal Meetings", "Admin", "Operations", "Customer Support",
    "Ads">>

\* The employee tabs, in the order updateAllEmployeeCharts draws them
EmployeeTabs == <<"victoria", "kyle", "brooke", "melanie", "austin">>

-----------------------------------------------------------------------------
(* Utilities: errors.js:462-618 (utils) *)

\* s.toLowerCase().split('@')[0], on characters
NormalizedName(cs) == SplitAtFirst(ToLowerCase(cs))

\* getHourlyRate, for an employee name given by its characters
getHourlyRate(employeeName) ==
  IF employeeName = <<>> THEN EMPLOYEE_RATES["default"]
  ELSE LET normalizedName == NormalizedName(employeeName)
           hit == {n \in DOMAIN EMPLOYEE_RATES : Chars[n] = normalizedName}
       IN IF hit # {} THEN EMPLOYEE_RATES[CHOOSE n \in hit : TRUE]
          ELSE EMPLOYEE_RATES["default"]

\* Days from 1970-01-01 to the first day of month (1..12) of year y
DaysToMonth(y, month) ==
  LET yy == IF month <= 2 THEN y - 1 ELSE y
      era == yy \div 400
      yoe == yy - era * 400
      mp == IF month > 2 THEN month - 3 ELSE month + 9
      doy == (153 * mp + 2) \div 5
      doe == yoe * 365 + yoe \div 4 - yoe \div 100 + doy
  IN era * 146097 + doe - 719468

\* new Date(year, monthIndex, day) as a day number (the time value in days);
\* Invalid Date (NaN) for an undefined month, given as -1; a year of 0..99
\* means 1900 + year; a day outside the month rolls over
MakeDate(year, monthIndex, day) ==
  IF monthIndex \notin 0..11 THEN NaN
  ELSE Num(DaysToMonth(IF year \in 0..99 THEN 1900 + year ELSE year,
                       monthIndex + 1) + day - 1)

\* monthMap[month]; -1 for undefined
MonthIndex(word) ==
  LET monthMap == << <<"J","a","n">>, <<"F","e","b">>, <<"M","a","r">>,
                     <<"A","p","r">>, <<"M","a","y">>, <<"J","u","n">>,
                     <<"J","u","l">>, <<"A","u","g">>, <<"S","e","p">>,
                     <<"O","c","t">>, <<"N","o","v">>, <<"D","e","c">> >>
  IN IndexOf(monthMap, word)

\* The end of the maximal run of characters satisfying a class, from i
RunEnd(cs, i, class) ==
  CHOOSE j \in i..Len(cs) :
    /\ \A k \in i..j : cs[k] \in class
    /\ (j = Len(cs) \/ cs[j + 1] \notin class)

LetterSet == Range(UpperChars) \cup Range(LowerChars)
DigitSet == Range(DigitChars)
SpaceSet == {" "}

\* The least element of a non-empty set of integers
Least(S) == CHOOSE a \in S : \A b \in S : a <= b

\* /([A-Za-z]+)\s+(\d+)/ from position i, where the letters end at j and the
\* white space after them at k: <<month word, digits>>, or NULL
DigitsAfter(cs, i, j, k) ==
  IF k < Len(cs) /\ cs[k + 1] \in DigitSet
  THEN <<SubSeq(cs, i, j), SubSeq(cs, k + 1, RunEnd(cs, k + 1, DigitSet))>>
  ELSE NULL

\* The same, where the letters end at j
SpaceAfter(cs, i, j) ==
  IF j < Len(cs) /\ cs[j + 1] \in SpaceSet
  THEN DigitsAfter(cs, i, j, RunEnd(cs, j + 1, SpaceSet))
  ELSE NULL

\* The match of /([A-Za-z]+)\s+(\d+)/ that starts at position i, or NULL
MatchAt(cs, i) ==
  IF cs[i] \in LetterSet THEN SpaceAfter(cs, i, RunEnd(cs, i, LetterSet)) ELSE NULL

\* The match at the least of the positions where there is one, or NULL
LeftmostMatch(cs, starts) ==
  IF starts = {} THEN NULL ELSE MatchAt(cs, Least(starts))

\* weekRange.match(/([A-Za-z]+)\s+(\d+)/): the leftmost match, as
\* <<month word, digits>>, or NULL
MatchMonthDay(cs) ==
  LeftmostMatch(cs, {i \in DOMAIN cs : MatchAt(cs, i) # NULL})

\* The four digits after the "(" at the least of the positions, or NULL
LeftmostYear(cs, starts) ==
  IF starts = {} THEN NULL
  ELSE SubSeq(cs, Least(starts) + 1, Least(starts) + 4)

\* weekRange.match(/\((\d{4})\)/): the four digits of the leftmost match, or NULL
MatchYear(cs) ==
  LeftmostYear(cs, {i \in 1..(Len(cs) - 5) :
                      /\ cs[i] = "("
                      /\ \A k \in (i + 1)..(i + 4) : cs[k] \in DigitSet
                      /\ cs[i + 5] = ")"})

\* The current year, whatever the label says
YearNow(yearMatch) == CurrentYear

\* yearMatch ? parseInt(yearMatch[1]) : new Date().getFullYear()
YearOf(yearMatch) ==
  IF yearMatch # NULL THEN ParseInt(yearMatch) ELSE CurrentYear

\* The date parseStartDateFromWeekRange returns, given its match
DateOfMatch(cs, match) ==
  IF match # NULL
  THEN MakeDate(YearOf(MatchYear(cs)), MonthIndex(match[1]), ParseInt(match[2]))
  ELSE Num(0)

\* parseStartDateFromWeekRange, on the characters of the label
ParseStartDate(cs) == DateOfMatch(cs, MatchMonthDay(cs))

\* parseStartDateFromWeekRange of every string of the model, computed once
parseStartDateFromWeekRange == [s \in DOMAIN Chars |-> ParseStartDate(Chars[s])]

\* dateA - dateB
DateDiff(dateA, dateB) ==
  IF dateA = NaN \/ dateB = NaN THEN NaN ELSE Num(dateA[1] - dateB[1])

compareWeekRanges(a, b) ==
  DateDiff(parseStartDateFromWeekRange[a], parseStartDateFromWeekRange[b])

\* x >= 0 and x <= 0 in JavaScript: false for NaN
GeZero(x) == x # NaN /\ x[1] >= 0
LeZero(x) == x # NaN /\ x[1] <= 0

filterDataByWeekRange(data, startWeek, endWeek) ==
  IF startWeek = "all" /\ endWeek = "all" THEN data
  ELSE LET Keep(row) ==
             LET weekRange == row.WeekRange
             IN IF startWeek # "all" /\ endWeek = "all"
                THEN GeZero(compareWeekRanges(weekRange, startWeek))
                ELSE IF startWeek = "all" /\ endWeek # "all"
                THEN LeZero(compareWeekRanges(weekRange, endWeek))
                ELSE /\ GeZero(compareWeekRanges(weekRange, startWeek))
                     /\ LeZero(compareWeekRanges(weekRange, endWeek))
       IN SelectSeq(data, Keep)

validateWeekSelection(startWeek, endWeek) ==
  IF startWeek = "all" \/ endWeek = "all" THEN TRUE
  ELSE LeZero(compareWeekRanges(startWeek, endWeek))

\* Object.keys(data[0]) without 'Date', 'User', 'Week Range': the task columns
\* of the CSV header, in header order
CsvTaskColumns ==
  <<"BD - Research", "BD - Emailing", "Congress - Calls", "Admin", "Ads", "Travel">>

getTaskCategories(data) == IF data = <<>> THEN <<>> ELSE CsvTaskColumns


-----------------------------------------------------------------------------
(* Aggregation: data-processor.js:202-241 *)

\* row[task] || 0
RowHours(row, task) == IF task \in DOMAIN row.hrs THEN row.hrs[task] ELSE 0

\* if (hours): any value but 0 counts
Truthy(hours) == hours # 0

\* if (hours > 0) (data-processor.js:221)
Counts(hours) == hours > 0

\* The employee key of a row: row.User.toLowerCase().split('@')[0]
EmployeeKey(row) == NormalizedName(Chars[row.User])

\* One pass of the employeeData.forEach body over a row
AddRow(detailedTaskData, row) ==
  LET employeeName == EmployeeKey(row)
      hourlyRate == getHourlyRate(employeeName)
  IN [task \in DOMAIN detailedTaskData |->
        LET hours == RowHours(row, task)
            bucket == detailedTaskData[task]
            old == IF employeeName \in DOMAIN bucket.byEmployee
                   THEN bucket.byEmployee[employeeName]
                   ELSE [hours |-> 0, cost |-> 0]
        IN IF Counts(hours)
           THEN [totalHours |-> bucket.totalHours + hours,
                 totalCost |-> bucket.totalCost + hours * hourlyRate,
                 byEmployee |->
                   [k \in DOMAIN bucket.byEmployee \cup {employeeName} |->
                      IF k = employeeName
                      THEN [hours |-> old.hours + hours,
                            cost |-> old.cost + hours * hourlyRate]
                      ELSE bucket.byEmployee[k]]]
           ELSE bucket]

calculateDetailedTaskData(employeeData, taskCategories) ==
  LET empty == [task \in Range(taskCategories) |->
                  [totalHours |-> 0, totalCost |-> 0, byEmployee |-> <<>>]]
      F[i \in 0..Len(employeeData)] ==
        IF i = 0 THEN empty ELSE AddRow(F[i - 1], employeeData[i])
  IN F[Len(employeeData)]


-----------------------------------------------------------------------------
(* The page and the JavaScript engine *)

\* pieCanvas: whether the free identifier pieCanvas of chart-renderer.js:445
\*   resolves (to a canvas the page defines as a global); if not, creating
\*   the pie chart raises a ReferenceError.
\* dateEngine: what new Date(label) gives for a week-range label, a format
\*   ECMAScript leaves to the implementation: "invalid" is Invalid Date for
\*   every label, "lenient" is the label's start date.
\* dashboardState: whether the free identifier dashboardState of
\*   loading-state.js:754 resolves (the module does not import it); if not,
\*   the reset handler raises a ReferenceError there.
EnvChoices == [pieCanvas : BOOLEAN, dateEngine : {"invalid", "lenient"},
               dashboardState : BOOLEAN]

\* new Date(a) - new Date(b) for two week-range labels
JsDateDiff(a, b) ==
  IF env.dateEngine = "invalid" THEN NaN ELSE compareWeekRanges(a, b)

\* A comparator result as Array.prototype.sort reads it: NaN is +0
SortKey(x) == IF x = NaN THEN 0 ELSE x[1]

-----------------------------------------------------------------------------
(* initializeEmployeeCharts: loading-state.js:1124-1435 *)

\* The rows of the tab: row.User.toLowerCase().includes(employeeName.toLowerCase())
RowsOfEmployee(data, employeeName) ==
  LET Keep(row) == Includes(ToLowerCase(Chars[row.User]),
                            ToLowerCase(Chars[employeeName]))
  IN SelectSeq(data, Keep)

\* The category a task is shown under: the last category that lists it, or ""
CategoryTypeOf(taskName) ==
  LET hits == {i \in DOMAIN TASK_CATEGORIES : taskName \in Range(TASK_CATEGORIES[i][2])}
  IN IF hits = {} THEN ""
     ELSE TASK_CATEGORIES[CHOOSE i \in hits : \A j \in hits : j <= i][1]

\* detailedBreakdown (loading-state.js:1153-1172): the tasks with hours, in the
\* order of Object.entries(detailedTaskData)
DetailedBreakdown(detailedTaskData, taskCategories) ==
  LET item(taskName) == [name |-> taskName,
                         hours |-> detailedTaskData[taskName].totalHours,
                         cost |-> detailedTaskData[taskName].totalCost,
                         type |-> CategoryTypeOf(taskName)]
      all == [i \in DOMAIN taskCategories |-> item(taskCategories[i])]
      HasHours(it) == it.hours > 0
  IN SelectSeq(all, HasHours)

\* (a, b) => b.cost - a.cost
ByCostDesc(items) ==
  [p \in Range(items) \X Range(items) |-> p[2].cost - p[1].cost]

\* (a, b) => b.hours - a.hours
ByHoursDesc(items) ==
  [p \in Range(items) \X Range(items) |-> p[2].hours - p[1].hours]

\* The TASK_ORDER comparator of loading-state.js:1221-1236
ByTaskOrder(items) ==
  [p \in Range(items) \X Range(items) |->
     LET indexA == IndexOf(TASK_ORDER, p[1].name)
         indexB == IndexOf(TASK_ORDER, p[2].name)
     IN IF indexA # -1 /\ indexB # -1 THEN indexA - indexB
        ELSE IF indexA # -1 THEN -1
        ELSE IF indexB # -1 THEN 1
        ELSE p[2].hours - p[1].hours]

\* A category that also takes in the tasks no category lists, if it is the
\* one for miscellaneous work
ListsOrMiscellaneous(c, taskName) ==
  \/ taskName \in Range(TASK_CATEGORIES[c][2])
  \/ /\ TASK_CATEGORIES[c][1] = "Miscellaneous"
     /\ \A d \in DOMAIN TASK_CATEGORIES : taskName \notin Range(TASK_CATEGORIES[d][2])

\* tasks.includes(task.name) for the tasks of the category number c
Lists(c, taskName) == taskName \in Range(TASK_CATEGORIES[c][2])

\* Task items summed into their categories, the empty categories left out,
\* sorted by hours descending (loading-state.js:1190-1218; the same
\* computation on detailedTaskData in chart-renderer.js:334-365)
CategoryData(taskItems) ==
  LET F[i \in 0..Len(taskItems)] ==
        IF i = 0
        THEN [c \in DOMAIN CategoryNames |->
                [name |-> CategoryNames[c], hours |-> 0, cost |-> 0,
                 type |-> CategoryNames[c]]]
        ELSE LET prev == F[i - 1]
             IN [c \in DOMAIN CategoryNames |->
                   IF Lists(c, taskItems[i].name)
                   THEN [prev[c] EXCEPT !.hours = @ + taskItems[i].hours,
                                        !.cost = @ + taskItems[i].cost]
                   ELSE prev[c]]
      HasHours(it) == it.hours > 0
      nonEmpty == SelectSeq(F[Len(taskItems)], HasHours)
  IN StableSort(nonEmpty, ByHoursDesc(nonEmpty))

\* barData of loading-state.js:1188-1237
BarData(detailedBreakdown, levelMode) ==
  IF levelMode = "category" THEN CategoryData(detailedBreakdown)
  ELSE StableSort(detailedBreakdown, ByTaskOrder(detailedBreakdown))


\* The numbers updateEmployeeSummary (loading-state.js:1452-1528) writes
updateEmployeeSummary(employeeName, totalsByCategory, detailedBreakdown, filtered) ==
  LET hourlyRate == getHourlyRate(Chars[employeeName])
      totalHours == SumSeq(totalsByCategory)
      sortedByHours == StableSort(detailedBreakdown, ByHoursDesc(detailedBreakdown))
      found == Len(detailedBreakdown) > 0
      Keep(row) == Includes(ToLowerCase(Chars[row.User]), Chars[employeeName])
      employeeData == SelectSeq(filtered, Keep)
      uniqueWeeks == UniqueSeq([i \in DOMAIN employeeData |-> employeeData[i].WeekRange])
  IN [totalHours |-> totalHours,
      totalCompensation |-> totalHours * hourlyRate,
      mostTimeActivity |-> IF found THEN sortedByHours[1].name ELSE "None",
      mostTimeHours |-> IF found THEN sortedByHours[1].hours ELSE 0,
      mostTimeCost |-> IF found THEN sortedByHours[1].cost ELSE 0,
      weeks |-> Len(uniqueWeeks)]

\* The positive hours of a task in a row: hours = row[task] || 0; if (hours > 0)
PosHours(row, task) == IF RowHours(row, task) > 0 THEN RowHours(row, task) ELSE 0

\* The sum of PosHours over the rows of a week and the tasks of a list
WeekHours(employeeData, week, tasks) ==
  SumSeq([i \in DOMAIN employeeData |->
            IF employeeData[i].WeekRange = week
            THEN SumSeq([k \in DOMAIN tasks |-> PosHours(employeeData[i], tasks[k])])
            ELSE 0])

\* weeks of loading-state.js:1258: [...uniqueWeeks].sort((a, b) => new Date(a) - new Date(b))
SortedWeeks(uniqueWeeks) ==
  StableSort(uniqueWeeks,
             [p \in Range(uniqueWeeks) \X Range(uniqueWeeks) |->
                SortKey(JsDateDiff(p[1], p[2]))])

\* At least one week
HasAnyWeek(uniqueWeeks) == Len(uniqueWeeks) > 0

\* uniqueWeeks.length > 1 (loading-state.js:1248)
HasSeveralWeeks(uniqueWeeks) == Len(uniqueWeeks) > 1

FirstN(s, n) == SubSeq(s, 1, IF Len(s) < n THEN Len(s) ELSE n)

\* The trend datasets in category mode (loading-state.js:1263-1339)
CategoryTrend(employeeData, weeks, hourlyRate, displayMode) ==
  LET hoursOf(week, c) == WeekHours(employeeData, week, TASK_CATEGORIES[c][2])
      totalOf(week) == SumSeq([c \in DOMAIN TASK_CATEGORIES |-> hoursOf(week, c)])
      categoryTotals == [c \in DOMAIN TASK_CATEGORIES |->
                           [cat |-> c,
                            hours |-> SumSeq([w \in DOMAIN weeks |-> hoursOf(weeks[w], c)])]]
      HasHours(e) == e.hours > 0
      positive == SelectSeq(categoryTotals, HasHours)
      topCategories == FirstN(StableSort(positive, ByHoursDesc(positive)), 3)
      displayByCost == displayMode = "cost"
      value(h) == IF displayByCost THEN h * hourlyRate ELSE h
  IN [i \in DOMAIN topCategories |->
        [label |-> CategoryNames[topCategories[i].cat],
         data |-> [w \in DOMAIN weeks |-> value(hoursOf(weeks[w], topCategories[i].cat))]]]
     \o << [label |-> IF displayByCost THEN "Total Cost" ELSE "Total Hours",
            data |-> [w \in DOMAIN weeks |-> value(totalOf(weeks[w]))]] >>

\* The trend datasets in task mode (loading-state.js:1341-1415)
TaskTrend(employeeData, weeks, detailedBreakdown, rowKeys, hourlyRate, displayMode) ==
  LET topActivities == FirstN(detailedBreakdown, 3)
      topNames == [i \in DOMAIN topActivities |-> topActivities[i].name]
      IsOther(key) == key \notin Range(topNames)
      others == SelectSeq(rowKeys, IsOther)
      displayByCost == displayMode = "cost"
      value(h) == IF displayByCost THEN h * hourlyRate ELSE h
      totalOf(week) == WeekHours(employeeData, week, topNames)
                         + WeekHours(employeeData, week, others)
  IN [i \in DOMAIN topNames |->
        [label |-> topNames[i],
         data |-> [w \in DOMAIN weeks |->
                     value(WeekHours(employeeData, weeks[w], <<topNames[i]>>))]]]
     \o << [label |-> IF displayByCost THEN "Total Cost" ELSE "Total Hours",
            data |-> [w \in DOMAIN weeks |-> value(totalOf(weeks[w]))]] >>

\* The weekly trend of loading-state.js:1245-1434: whether
\* initializeTimeLineChart is called, and with which labels and datasets
WeeklyTrend(employeeData, detailedBreakdown, rowKeys, employeeName, levelMode, displayMode) ==
  LET uniqueWeeks == UniqueSeq([i \in DOMAIN employeeData |-> employeeData[i].WeekRange])
      hourlyRate == getHourlyRate(Chars[employeeName])
      weeks == SortedWeeks(uniqueWeeks)
  IN IF HasSeveralWeeks(uniqueWeeks)
     THEN [shown |-> TRUE,
           labels |-> weeks,
           datasets |-> IF levelMode = "category"
                        THEN CategoryTrend(employeeData, weeks, hourlyRate, displayMode)
                        ELSE TaskTrend(employeeData, weeks, detailedBreakdown, rowKeys,
                                       hourlyRate, displayMode)]
     ELSE [shown |-> FALSE, labels |-> <<>>, datasets |-> <<>>]


-----------------------------------------------------------------------------
(* Pie chart and chart-data cache: chart-renderer.js:41-87, 258-275, 315-465 *)

\* The chartData a cache miss computes (chart-renderer.js:325-442): the items,
\* and the values and the total the percentage labels divide by
PieChartData(detailedTaskData, taskCategories, levelMode, displayMode) ==
  LET taskItems == DetailedBreakdown(detailedTaskData, taskCategories)
      items == IF levelMode = "category" THEN CategoryData(taskItems)
               ELSE StableSort(taskItems, ByTaskOrder(taskItems))
      displayByCost == displayMode = "cost"
      values == [i \in DOMAIN items |->
                   IF displayByCost THEN items[i].cost ELSE items[i].hours]
  IN [items |-> items, values |-> values, total |-> SumSeq(values)]

\* `${employeeName}-pie-${globalLevelMode}-${globalDisplayMode}`
CacheKey(employeeName, levelMode, displayMode) == <<employeeName, levelMode, displayMode>>

StartsWith(s, prefix) ==
  Len(prefix) <= Len(s) /\ SubSeq(s, 1, Len(prefix)) = prefix

\* clearChartDataCache(employeeName): the keys that start with the name go
clearChartDataCache(cache, employeeName) ==
  LET kept == {k \in DOMAIN cache :
                 ~StartsWith(Chars[k[1]] \o <<"-">>, Chars[employeeName])}
  IN [k \in kept |-> cache[k]]

\* cleanupChart(employeeName, chartType) on st = [cache, charts, ...]
cleanupChart(st, employeeName, chartType) ==
  IF chartType \notin st.charts[employeeName] THEN st
  ELSE [st EXCEPT !.charts[employeeName] = @ \ {chartType},
                  !.cache = clearChartDataCache(st.cache, employeeName)]

\* getCachedChartData(cacheKey, calculateFn): <<data, cache afterwards>>
getCachedChartData(cache, cacheKey, computed) ==
  IF cacheKey \in DOMAIN cache THEN <<cache[cacheKey], cache>>
  ELSE <<computed, [k \in DOMAIN cache \cup {cacheKey} |->
                      IF k = cacheKey THEN computed ELSE cache[k]]>>

-----------------------------------------------------------------------------
(* updateAllEmployeeCharts: loading-state.js:1102-1118 *)

NoSummary == [totalHours |-> 0, totalCompensation |-> 0, mostTimeActivity |-> "N/A",
              mostTimeHours |-> 0, mostTimeCost |-> 0, weeks |-> 0]
NoPie == [items |-> <<>>, values |-> <<>>, total |-> 0]
NoTrend == [shown |-> FALSE, labels |-> <<>>, datasets |-> <<>>]

\* What a tab shows before it is first drawn
Blank == [state |-> "blank", rows |-> <<>>, buckets |-> <<>>, summary |-> NoSummary, pie |-> NoPie,
          bar |-> <<>>, trend |-> NoTrend]

\* The charts of a tab (loading-state.js:1165-1435), given the summary, the
\* bar data and the trend initializeEmployeeCharts computes and the chartData a
\* cache miss of initializeTaskPieChart would compute: state is "threw" when
\* initializeTaskPieChart raised (the summary is written, nothing after it),
\* "drawn" otherwise; pie is the chartData the call got from the cache.
createCharts(st, employeeName, employeeData, detailedTaskData, summary, computed, barData, trend, levelMode, displayMode) ==
  LET st1 == cleanupChart(st, employeeName, "pieChart")
      got == getCachedChartData(st1.cache,
               CacheKey(employeeName, levelMode, displayMode), computed)
      st2 == [st1 EXCEPT !.cache = got[2]]
      st3 == [cleanupChart([st2 EXCEPT !.charts[employeeName] = @ \cup {"pieChart"}],
                           employeeName, "barChart")
                EXCEPT !.charts[employeeName] = @ \cup {"barChart"}]
      st4 == IF trend.shown
             THEN [cleanupChart(st3, employeeName, "timeLineChart")
                     EXCEPT !.charts[employeeName] = @ \cup {"timeLineChart"}]
             ELSE st3
  IN IF ~env.pieCanvas
     THEN [st2 EXCEPT !.threw = TRUE,
                      !.rendered[employeeName] =
                         [@ EXCEPT !.state = "threw", !.rows = employeeData,
                                   !.buckets = detailedTaskData,
                                   !.summary = summary, !.pie = got[1]]]
     ELSE [st4 EXCEPT !.rendered[employeeName] =
                         [state |-> "drawn", rows |-> employeeData,
                          buckets |-> detailedTaskData,
                          summary |-> summary, pie |-> got[1], bar |-> barData,
                          trend |-> trend]]

\* initializeEmployeeCharts from the summary on (loading-state.js:1162-1435),
\* with the employeeData, taskCategories, detailedTaskData and
\* detailedBreakdown it has computed by then
drawEmployeeCharts(st, employeeName, employeeData, taskCategories, detailedTaskData, detailedBreakdown, filtered, levelMode, displayMode) ==
  createCharts(st, employeeName, employeeData, detailedTaskData,
    updateEmployeeSummary(employeeName,
      [i \in DOMAIN taskCategories |-> detailedTaskData[taskCategories[i]].totalHours],
      detailedBreakdown, filtered),
    PieChartData(detailedTaskData, taskCategories, levelMode, displayMode),
    BarData(detailedBreakdown, levelMode),
    WeeklyTrend(employeeData, detailedBreakdown, taskCategories,
                employeeName, levelMode, displayMode),
    levelMode, displayMode)

\* initializeEmployeeCharts once detailedTaskData is computed (loading-state.js:
\* 1151-1160): detailedBreakdown is its buckets as items
withDetailedTaskData(st, employeeName, employeeData, taskCategories, detailedTaskData, filtered, levelMode, displayMode) ==
  drawEmployeeCharts(st, employeeName, employeeData, taskCategories, detailedTaskData,
                     DetailedBreakdown(detailedTaskData, taskCategories),
                     filtered, levelMode, displayMode)

\* initializeEmployeeCharts(employeeName) on st = [cache, charts, rendered,
\* threw]: state is "nodata" after displayNoDataMessage (loading-state.js:
\* 1124-1160); rows is the employeeData of the call, buckets its
\* detailedTaskData.
initializeEmployeeCharts(st, employeeName, data, filtered, levelMode, displayMode) ==
  LET taskCategories == getTaskCategories(data)
      employeeData == RowsOfEmployee(filtered, employeeName)
  IN IF data = <<>> \/ employeeData = <<>>
     THEN [st EXCEPT !.rendered[employeeName] =
                        [@ EXCEPT !.state = "nodata", !.rows = <<>>, !.buckets = <<>>,
                                  !.summary = NoSummary, !.trend = NoTrend]]
     ELSE withDetailedTaskData(st, employeeName, employeeData, taskCategories,
                               calculateDetailedTaskData(employeeData, taskCategories),
                               filtered, levelMode, displayMode)

\* The body of the loop of updateAllEmployeeCharts for tab number n, on the
\* state prev the tabs before it have left
drawNextTab(prev, n, data, filtered, levelMode, displayMode) ==
  IF prev.threw THEN prev
  ELSE initializeEmployeeCharts(prev, EmployeeTabs[n], data, filtered,
                                levelMode, displayMode)

RECURSIVE drawTabs(_, _, _, _, _, _)
\* The first n tabs in order; an exception ends the loop
drawTabs(st, n, data, filtered, levelMode, displayMode) ==
  IF n = 0 THEN [st EXCEPT !.threw = FALSE]
  ELSE drawNextTab(drawTabs(st, n - 1, data, filtered, levelMode, displayMode),
                   n, data, filtered, levelMode, displayMode)

\* updateAllEmployeeCharts: the tabs in order; an exception ends the call
updateAllEmployeeCharts(st, data, filtered, levelMode, displayMode) ==
  drawTabs(st, Len(EmployeeTabs), data, filtered, levelMode, displayMode)


-----------------------------------------------------------------------------
(* The data a fetch or an upload can deliver *)

Users == {"kyle@x.com", "Bob@Kyle.org"}
Weeks == {"Mar 10 - Mar 15 (2025)", "Mar 17 - Mar 22 (2025)"}

\* The values of the task columns of a row
Hrs(a, b, c, d, e, f) ==
  [task \in Range(CsvTaskColumns) |->
     CASE task = "BD - Research" -> a
       [] task = "BD - Emailing" -> b
       [] task = "Congress - Calls" -> c
       [] task = "Admin" -> d
       [] task = "Ads" -> e
       [] task = "Travel" -> f]

RowShapes == {Hrs(2, 0, 0, 0, 0, 0), Hrs(0, -1, 0, 0, 2, 0), Hrs(1, 1, 1, 2, 3, 1)}

\* The rows of a CSV, not yet parsed into objects
RowUniverse ==
  {[User |-> u, WeekRange |-> w, oid |-> 0, hrs |-> h] :
     u \in Users, w \in Weeks, h \in RowShapes}

\* The non-empty CSVs of at most MaxRows rows
Datasets == UNION {[1..k -> RowUniverse] : k \in 1..MaxRows}

\* Parsing a CSV creates fresh row objects: those of parse number id
Parsed(d, id) == [i \in DOMAIN d |-> [d[i] EXCEPT !.oid = id]]

\* What the spreadsheet, and the file that is uploaded, hold while the
\* fetches, the filters and the uploads interleave
Sheets ==
  LET row(u, w, h) == [User |-> u, WeekRange |-> w, oid |-> 0, hrs |-> h]
  IN {<<row("kyle@x.com", "Mar 10 - Mar 15 (2025)", Hrs(2, 0, 0, 0, 0, 0)),
        row("Bob@Kyle.org", "Mar 17 - Mar 22 (2025)", Hrs(0, -1, 0, 0, 2, 0))>>}

\* The options of the start-week and end-week selects that get chosen
WeekOptions == {"all", "Mar 17 - Mar 22 (2025)"}


-----------------------------------------------------------------------------
(* The handlers of the main module: loading-state.js:608-965 *)

\* The page after a call of updateAllEmployeeCharts that left st
Shown(st, data, filtered) ==
  /\ chartDataCache' = st.cache
  /\ charts' = st.charts
  /\ rendered' = st.rendered
  /\ renderLog' = [source |-> data, rows |-> filtered]

\* A call of updateAllEmployeeCharts by a handler, once the handler has set
\* the data, the filtered data and the modes to the given values
Render(data, filtered, levelMode, displayMode) ==
  Shown(updateAllEmployeeCharts(
          [cache |-> chartDataCache, charts |-> charts,
           rendered |-> rendered, threw |-> FALSE],
          data, filtered, levelMode, displayMode),
        data, filtered)

\* The filtered rows left as they are
StaleFiltered(newData) == filteredEmployeesData

\* filterDataByWeekRange(employeesData, activeStartWeek, activeEndWeek) of the
\* refresh handler (loading-state.js:773)
RefilteredData(newData) ==
  filterDataByWeekRange(newData, activeStartWeek, activeEndWeek)

\* updateAllEmployeeCharts raised: the tab it stopped at is left as "threw"
Threw(tabs) == \E e \in DOMAIN tabs : tabs[e].state = "threw"

\* setupAutoRefresh (loading-state.js:1047-1097) in the continuation of fetch
\* f, with newData in employeesData: the interval it installs is named after f
setupAutoRefresh(f, newData) ==
  LET cleared == IF autoRefreshIntervalId # 0 THEN intervals \ {autoRefreshIntervalId}
                 ELSE intervals
  IN IF Len(newData) > 0 /\ dataSourceConnected
     THEN /\ autoRefreshIntervalId' = f
          /\ intervals' = cleared \cup {f}
     ELSE /\ autoRefreshIntervalId' = IF autoRefreshIntervalId # 0 THEN 0
                                      ELSE autoRefreshIntervalId
          /\ intervals' = cleared

\* fetchEmployeeData of fetch f resolves with the rows d (never empty: it
\* throws instead): the continuation of initializeDashboard (loading-state.js:
\* 632-640) or of the refresh handler (767-777)
FetchReturns(f, d) ==
  /\ f \in DOMAIN fetches
  /\ fetches[f].status = "inflight"
  /\ LET newData == Parsed(d, f)
         filtered == IF fetches[f].kind = "init" THEN newData
                     ELSE RefilteredData(newData)
     IN /\ employeesData' = newData
        /\ filteredEmployeesData' = filtered
        /\ Render(newData, filtered, globalLevelMode, globalDisplayMode)
        /\ IF fetches[f].kind = "init" /\ ~Threw(rendered') /\ dataSourceConnected
           THEN setupAutoRefresh(f, newData)
           ELSE UNCHANGED <<autoRefreshIntervalId, intervals>>
  /\ windowDataSourceConnected' = TRUE
  /\ fetches' = [fetches EXCEPT ![f].status = "done"]
  /\ committedBy' = f
  /\ UNCHANGED <<activeStartWeek, activeEndWeek, globalDisplayMode, globalLevelMode,
                 env, fetchSeq, debVars, filterVars, pieVars, colorVars, rowCall,
                 fetchVars, totalsCall, dataSourceConnected, selectorVars>>

\* fetchEmployeeData of fetch f throws (data-processor.js:16-193): the
\* handler's continuation does not run
FetchFails(f) ==
  /\ f \in DOMAIN fetches
  /\ fetches[f].status = "inflight"
  /\ fetches' = [fetches EXCEPT ![f].status = "failed"]
  /\ windowDataSourceConnected' = FALSE
  /\ UNCHANGED <<employeesData, filteredEmployeesData, activeStartWeek, activeEndWeek,
                 globalDisplayMode, globalLevelMode, chartDataCache, charts,
                 rendered, renderLog, env, fetchSeq, committedBy, debVars, filterVars,
                 pieVars, colorVars, rowCall, fetchVars, totalsCall,
                 dataSourceConnected, autoRefreshIntervalId, intervals, selectorVars>>

\* The refresh button is clicked: the handler runs up to its await
RefreshClick ==
  /\ listening
  /\ fetchSeq < MaxFetches
  /\ fetchSeq' = fetchSeq + 1
  /\ fetches' = [f \in 1..(fetchSeq + 1) |->
                   IF f <= fetchSeq THEN fetches[f]
                   ELSE [kind |-> "refresh", status |-> "inflight"]]
  /\ UNCHANGED <<employeesData, filteredEmployeesData, activeStartWeek, activeEndWeek,
                 globalDisplayMode, globalLevelMode, chartDataCache, charts,
                 rendered, renderLog, env, committedBy, debVars, utilVars>>

\* The apply-filter button is clicked with the selects at startWeek, endWeek;
\* an invalid selection raises the alert and changes nothing
ApplyFilter(startWeek, endWeek) ==
  /\ listening
  /\ validateWeekSelection(startWeek, endWeek)
  /\ activeStartWeek' = startWeek
  /\ activeEndWeek' = endWeek
  /\ LET filtered == filterDataByWeekRange(employeesData, startWeek, endWeek)
     IN /\ filteredEmployeesData' = filtered
        /\ Render(employeesData, filtered, globalLevelMode, globalDisplayMode)
  /\ UNCHANGED <<employeesData, globalDisplayMode, globalLevelMode, env, fetches,
                 fetchSeq, committedBy, debVars, utilVars>>

\* The reset-filter button is clicked: dashboardState.resetAllFilters() comes
\* before the assignment of filteredEmployeesData
ResetFilter ==
  /\ listening
  /\ env.dashboardState
  /\ filteredEmployeesData' = employeesData
  /\ Render(employeesData, employeesData, globalLevelMode, globalDisplayMode)
  /\ UNCHANGED <<employeesData, activeStartWeek, activeEndWeek, globalDisplayMode,
                 globalLevelMode, env, fetches, fetchSeq, committedBy, debVars, utilVars>>

\* Papa.parse completes on an uploaded file of rows d (handleFileUpload)
FileUpload(d) ==
  /\ listening
  /\ employeesData' = d
  /\ filteredEmployeesData' = d
  /\ Render(d, d, globalLevelMode, globalDisplayMode)
  /\ committedBy' = 0
  /\ windowDataSourceConnected' = FALSE
  /\ UNCHANGED <<activeStartWeek, activeEndWeek, globalDisplayMode, globalLevelMode,
                 env, fetches, fetchSeq, debVars, filterVars, pieVars, colorVars,
                 rowCall, fetchVars, totalsCall, dataSourceConnected,
                 autoRefreshIntervalId, intervals, selectorVars>>

\* The hours / cost switch is clicked
ToggleDisplay ==
  /\ listening
  /\ globalDisplayMode' = IF globalDisplayMode = "hours" THEN "cost" ELSE "hours"
  /\ Render(employeesData, filteredEmployeesData, globalLevelMode, globalDisplayMode')
  /\ UNCHANGED <<employeesData, filteredEmployeesData, activeStartWeek, activeEndWeek,
                 globalLevelMode, env, fetches, fetchSeq, committedBy, debVars, utilVars>>

\* The category / task switch is clicked
ToggleLevel ==
  /\ listening
  /\ globalLevelMode' = IF globalLevelMode = "category" THEN "task" ELSE "category"
  /\ Render(employeesData, filteredEmployeesData, globalLevelMode', globalDisplayMode)
  /\ UNCHANGED <<employeesData, filteredEmployeesData, activeStartWeek, activeEndWeek,
                 globalDisplayMode, env, fetches, fetchSeq, committedBy, debVars, utilVars>>


-----------------------------------------------------------------------------
(* Debounced chart updates: chart-renderer.js:44-54, 90-105 *)

\* The wait of debouncedUpdateChart, in ms
Wait == 250

\* The clock advances in steps of a fifth of the wait
Quantum == Wait \div 5

\* The Chart objects updateChartData is called with, and the data objects
ChartObjects == {"chartA", "chartB"}
DataObjects == {"data1", "data2"}

\* A null chart argument
NoChart == "null"

\* No timer pending
NoTimer == <<>>

\* The arguments of the call whose timer is pending, if there is one
laterOfPending(chart, newData) ==
  IF timeout = NoTimer THEN [chart |-> chart, data |-> newData]
  ELSE [chart |-> timeout[1].chart, data |-> timeout[1].data]

\* later of chart-renderer.js:47-50: it closes over the arguments of its call
later(chart, newData) == [chart |-> chart, data |-> newData]

\* updateChartData(chart, newData): nothing without a chart; with one, the
\* debounced function is called: clearTimeout(timeout), then
\* timeout = setTimeout(later, wait). calls lists the calls with a chart.
updateChartData(chart, newData) ==
  IF chart = NoChart THEN UNCHANGED vars
  ELSE /\ Len(calls) < MaxCalls
       /\ calls' = Append(calls, [t |-> now, chart |-> chart, data |-> newData])
       /\ timeout' = <<[due |-> now + Wait, call |-> Len(calls) + 1,
                        chart |-> later(chart, newData).chart,
                        data |-> later(chart, newData).data]>>
       /\ UNCHANGED <<now, execs, chartData, dashVars, utilVars>>

\* The pending timer runs later(): func(...args) of chart-renderer.js:90-95
TimerFires ==
  /\ timeout # NoTimer
  /\ now = timeout[1].due
  /\ LET chart == timeout[1].chart
         applied == ~chartData[chart].destroyed
     IN /\ execs' = Append(execs, [t |-> now, call |-> timeout[1].call,
                                   chart |-> chart, data |-> timeout[1].data,
                                   applied |-> applied])
        /\ chartData' = IF applied
                        THEN [chartData EXCEPT ![chart].data = timeout[1].data]
                        ELSE chartData
  /\ timeout' = NoTimer
  /\ UNCHANGED <<now, calls, dashVars, utilVars>>

\* Time passes, but not beyond the moment the pending timer is due
Advance ==
  /\ now + Quantum <= MaxTicks * Quantum
  /\ timeout # NoTimer => now + Quantum <= timeout[1].due
  /\ now' = now + Quantum
  /\ UNCHANGED <<timeout, calls, execs, chartData, dashVars, utilVars>>

\* chart.destroy() on a chart object
DestroyChart(chart) ==
  /\ ~chartData[chart].destroyed
  /\ chartData' = [chartData EXCEPT ![chart].destroyed = TRUE]
  /\ UNCHANGED <<now, timeout, calls, execs, dashVars, utilVars>>

-----------------------------------------------------------------------------
(* filterData: loading-state.js:1594-1632, on the filter state of the state
   manager (class DashboardState, getFilterState) *)

\* The filter fields the DashboardState constructor sets
DefaultFilterState ==
  [dateRange |-> [start |-> "all", end |-> "all"], activeEmployee |-> "all",
   searchQuery |-> "", taskCategory |-> "all"]

\* The values of the fields of a row that are strings: Papa.parse with
\* dynamicTyping makes numbers of the hours
StringValues(row) == <<row.User, row.WeekRange>>

\* The week range step of filterData (loading-state.js:1598-1601)
weekRangeFilter(data, state) ==
  IF state.dateRange.start # "all" \/ state.dateRange.end # "all"
  THEN filterDataByWeekRange(data, state.dateRange.start, state.dateRange.end)
  ELSE data

\* The employee step without its test for 'all'
employeeFilterAlways(filtered, state) ==
  LET Keep(row) == Includes(ToLowerCase(Chars[row.User]),
                            ToLowerCase(Chars[state.activeEmployee]))
  IN SelectSeq(filtered, Keep)

\* The employee step (loading-state.js:1603-1608)
employeeFilter(filtered, state) ==
  LET Keep(row) == Includes(ToLowerCase(Chars[row.User]),
                            ToLowerCase(Chars[state.activeEmployee]))
  IN IF state.activeEmployee # "all" THEN SelectSeq(filtered, Keep) ELSE filtered

\* The search step (loading-state.js:1610-1621): an empty query is falsy
searchFilter(filtered, state) ==
  LET query == ToLowerCase(Chars[state.searchQuery])
      Keep(row) == \E i \in DOMAIN StringValues(row) :
                      Includes(ToLowerCase(Chars[StringValues(row)[i]]), query)
  IN IF state.searchQuery # "" THEN SelectSeq(filtered, Keep) ELSE filtered

\* A step that drops the first row it is given
dropsFirstRow(filtered, state) ==
  IF filtered = <<>> THEN <<>> ELSE Tail(filtered)

\* The task category step (loading-state.js:1623-1629):
\* getTaskCategories([row]).includes(state.taskCategory)
taskCategoryFilter(filtered, state) ==
  LET Keep(row) == state.taskCategory \in Range(getTaskCategories(<<row>>))
  IN IF state.taskCategory # "all" THEN SelectSeq(filtered, Keep) ELSE filtered

\* filterData(data), where getFilterState() gives state
filterData(data, state) ==
  taskCategoryFilter(
    searchFilter(employeeFilter(weekRangeFilter(data, state), state), state), state)

\* A callback that compares the week with both bounds, whatever they are
RowComparesBoth(weekRange, startWeek, endWeek) ==
  {<<weekRange, startWeek>>, <<weekRange, endWeek>>}

\* The arguments of the compareWeekRanges calls the callback of
\* filterDataByWeekRange makes for a row (errors.js:587-603): && evaluates its
\* right operand only if the left one is true
RowCompares(weekRange, startWeek, endWeek) ==
  IF startWeek # "all" /\ endWeek = "all" THEN {<<weekRange, startWeek>>}
  ELSE IF startWeek = "all" /\ endWeek # "all" THEN {<<weekRange, endWeek>>}
  ELSE {<<weekRange, startWeek>>}
         \cup (IF GeZero(compareWeekRanges(weekRange, startWeek))
               THEN {<<weekRange, endWeek>>} ELSE {})

\* The arguments of the compareWeekRanges calls of a filterDataByWeekRange call
WeekRangeCompares(data, startWeek, endWeek) ==
  IF startWeek = "all" /\ endWeek = "all" THEN {}
  ELSE UNION {RowCompares(data[i].WeekRange, startWeek, endWeek) : i \in DOMAIN data}

\* The arguments of the compareWeekRanges calls of a validateWeekSelection call
ValidateCompares(startWeek, endWeek) ==
  IF startWeek = "all" \/ endWeek = "all" THEN {} ELSE {<<startWeek, endWeek>>}

\* The arguments of the compareWeekRanges calls of a filterData call
FilterDataCompares(data, state) ==
  IF state.dateRange.start # "all" \/ state.dateRange.end # "all"
  THEN WeekRangeCompares(data, state.dateRange.start, state.dateRange.end)
  ELSE {}

\* The rows filterData is called with
FilterUsers == {"kyle@x.com", "Bob@Kyle.org"}
FilterShapes == {Hrs(2, 0, 0, 0, 0, 0), Hrs(0, -1, 0, 0, 2, 0)}
FilterRows ==
  {[User |-> u, WeekRange |-> w, oid |-> 0, hrs |-> h] :
     u \in FilterUsers, w \in Weeks, h \in FilterShapes}
FilterInputs == UNION {[1..k -> FilterRows] : k \in 0..MaxRows}

\* The filter states it is called under
FilterStates ==
  [dateRange : [start : {"all"} \cup Weeks, end : {"all"} \cup Weeks],
   activeEmployee : {"all", "Kyle", "bob"},
   searchQuery : {"", "MAR 17", "kyle"},
   taskCategory : {"all", "Advertising", "Ads"}]

\* filterData(data) is called: without a global dashboardState line 1596
\* raises a ReferenceError. The call assigns to neither data nor the state.
FilterDataCall(data) ==
  /\ filterCalls' = Append(filterCalls,
       IF env.dashboardState
       THEN [fn |-> "filterData", data |-> data, raised |-> FALSE,
             result |-> filterData(data, filterState),
             compared |-> FilterDataCompares(data, filterState)]
       ELSE [fn |-> "filterData", data |-> data, raised |-> TRUE,
             result |-> <<>>, compared |-> {}])
  /\ UNCHANGED <<dashVars, debVars, filterState, comparedLabels, comparisons, pieVars, colorVars, lateVars>>

\* The first call of filterData
FilterDataFirst(data) ==
  /\ filterCalls = <<>>
  /\ FilterDataCall(data)

\* A further call of filterData: with the rows of the call before it, or with
\* the rows that call returned
FilterDataAgain(data) ==
  /\ filterCalls # <<>>
  /\ Len(filterCalls) < MaxFilterCalls
  /\ filterCalls[Len(filterCalls)].fn = "filterData"
  /\ ~filterCalls[Len(filterCalls)].raised
  /\ data \in {filterCalls[Len(filterCalls)].data, filterCalls[Len(filterCalls)].result}
  /\ FilterDataCall(data)

\* filterDataByWeekRange(data, start, end) is called with the selected weeks
FilterByWeekRangeCall(data) ==
  /\ filterCalls = <<>>
  /\ filterCalls' = <<[fn |-> "filterDataByWeekRange", data |-> data, raised |-> FALSE,
                       result |-> filterDataByWeekRange(data, filterState.dateRange.start,
                                                        filterState.dateRange.end),
                       compared |-> WeekRangeCompares(data, filterState.dateRange.start,
                                                      filterState.dateRange.end)]>>
  /\ UNCHANGED <<dashVars, debVars, filterState, comparedLabels, comparisons, pieVars, colorVars, lateVars>>

\* validateWeekSelection(start, end) is called with the selected weeks
ValidateCall ==
  /\ filterCalls = <<>>
  /\ filterCalls' = <<[fn |-> "validateWeekSelection", data |-> <<>>, raised |-> FALSE,
                       result |-> validateWeekSelection(filterState.dateRange.start,
                                                        filterState.dateRange.end),
                       compared |-> ValidateCompares(filterState.dateRange.start,
                                                     filterState.dateRange.end)]>>
  /\ UNCHANGED <<dashVars, debVars, filterState, comparedLabels, comparisons, pieVars, colorVars, lateVars>>

-----------------------------------------------------------------------------
(* compareWeekRanges called on labels: errors.js:486-521 *)

\* The labels compareWeekRanges is called with: weeks of the sheet, a week of
\* the year before, a label without a year, and labels that are no
\* '<month abbreviation> <day>'
Labels ==
  {"Mar 10 - Mar 15 (2025)", "Mar 17 - Mar 22 (2025)", "Dec 29 - Jan 3 (2024)",
   "Mar 10 - Mar 15", "2025-03-10", "March 10 - March 15 (2025)",
   "mar 10 - mar 15 (2025)"}

\* parseStartDateFromWeekRange of each of the three labels, and
\* compareWeekRanges of each two of them, are computed
CompareLabels ==
  /\ comparisons = <<>>
  /\ comparisons' =
       [dates |-> [i \in DOMAIN comparedLabels |->
                     parseStartDateFromWeekRange[comparedLabels[i]]],
        diffs |-> [p \in (DOMAIN comparedLabels) \X (DOMAIN comparedLabels) |->
                     compareWeekRanges(comparedLabels[p[1]], comparedLabels[p[2]])]]
  /\ UNCHANGED <<dashVars, debVars, filterState, filterCalls, comparedLabels, pieVars, colorVars, lateVars>>

-----------------------------------------------------------------------------
(* Color caches: chart-renderer.js:10-13, 149-250 and, with clearColorCaches,
   the same code in errors.js:337-461 (color-utils) *)

\* CATEGORY_COLORS (chart-renderer.js:948-957), each color by its characters
CATEGORY_COLORS ==
  [category \in Range(CategoryNames) |->
     CASE category = "Business Development" -> <<"#", "4", "C", "A", "F", "5", "0">>
       [] category = "Congress" -> <<"#", "2", "1", "9", "6", "F", "3">>
       [] category = "Social Media" -> <<"#", "F", "F", "C", "1", "0", "7">>
       [] category = "Influencer" -> <<"#", "9", "C", "2", "7", "B", "0">>
       [] category = "Newsletter" -> <<"#", "F", "F", "5", "7", "2", "2">>
       [] category = "Miscellaneous" -> <<"#", "6", "0", "7", "D", "8", "B">>
       [] category = "Internal Operations" -> <<"#", "7", "9", "5", "5", "4", "8">>
       [] category = "Advertising" -> <<"#", "E", "9", "1", "E", "6", "3">>]

\* The digits of toString(16)
HexChars == <<"0", "1", "2", "3", "4", "5", "6", "7", "8", "9", "a", "b", "c", "d", "e", "f">>

\* The digits parseInt(_, 16) reads besides them
UpperHexChars == <<"0", "1", "2", "3", "4", "5", "6", "7", "8", "9", "A", "B", "C", "D", "E", "F">>

\* The value of a hexadecimal digit
HexVal(c) == IF c \in Range(HexChars) THEN IndexOf(HexChars, c) ELSE IndexOf(UpperHexChars, c)

\* parseInt(hex.substring(i, i + 2), 16) for two hexadecimal digits
ParseHex(hex, i) == 16 * HexVal(hex[i + 1]) + HexVal(hex[i + 2])

\* n.toString(16).padStart(2, '0')
ToHex(n) == <<HexChars[(n \div 16) + 1], HexChars[(n % 16) + 1]>>

\* Math.min(255, Math.max(0, Math.round(c * (100 + percent) / 100)))
Adjusted(c, percent) ==
  IF (c * (100 + percent) + 50) \div 100 > 255 THEN 255
  ELSE IF (c * (100 + percent) + 50) \div 100 < 0 THEN 0
  ELSE (c * (100 + percent) + 50) \div 100

\* hex.replace(/^#/, '')
WithoutHash(hex) == IF hex # <<>> /\ hex[1] = "#" THEN Tail(hex) ELSE hex

\* adjustColor on the digits of the color
adjustDigits(digits, percent) ==
  <<"#">> \o ToHex(Adjusted(ParseHex(digits, 0), percent))
          \o ToHex(Adjusted(ParseHex(digits, 2), percent))
          \o ToHex(Adjusted(ParseHex(digits, 4), percent))

\* adjustColor (chart-renderer.js:230-250)
adjustColor(hex, percent) == adjustDigits(WithoutHash(hex), percent)

\* 15% for every step from the first task
percentFromFirst(tasksLength, index) == index * 15

\* percentAdjustment of the task at index (from 0) among tasksLength tasks
percentAdjustment(tasksLength, index) ==
  IF tasksLength = 1 THEN 0 ELSE (index - (tasksLength \div 2)) * 15

\* The empty caches of a module that has just been evaluated
NoColorCaches ==
  [task |-> [n \in {} |-> <<>>], taskBorder |-> [n \in {} |-> <<>>],
   category |-> [n \in {} |-> <<>>], categoryBorder |-> [n \in {} |-> <<>>]]

\* The tasks of the categories that have a color
ColoredTasks ==
  UNION {Range(TASK_CATEGORIES[t][2]) :
           t \in {u \in DOMAIN TASK_CATEGORIES : TASK_CATEGORIES[u][1] \in DOMAIN CATEGORY_COLORS}}

\* The category whose loop writes the color of the task last
LastCategoryOf(taskName) ==
  CHOOSE t \in DOMAIN TASK_CATEGORIES :
    /\ TASK_CATEGORIES[t][1] \in DOMAIN CATEGORY_COLORS
    /\ taskName \in Range(TASK_CATEGORIES[t][2])
    /\ \A u \in DOMAIN TASK_CATEGORIES :
         (TASK_CATEGORIES[u][1] \in DOMAIN CATEGORY_COLORS
            /\ taskName \in Range(TASK_CATEGORIES[u][2])) => u <= t

\* adjustedColor of the task in the loop of category number t
adjustedColorIn(t, taskName) ==
  adjustColor(CATEGORY_COLORS[TASK_CATEGORIES[t][1]],
              percentAdjustment(Len(TASK_CATEGORIES[t][2]),
                                IndexOf(TASK_CATEGORIES[t][2], taskName)))

\* The color initializeColorCaches leaves for the task
adjustedColor(taskName) == adjustedColorIn(LastCategoryOf(taskName), taskName)

\* A cache after the assignments cache[name] = colors[name]
Assigned(cache, colors) ==
  [n \in DOMAIN cache \cup DOMAIN colors |->
     IF n \in DOMAIN colors THEN colors[n] ELSE cache[n]]

\* baseColor + 'CC'
CategoryFill(category) == CATEGORY_COLORS[category] \o <<"C", "C">>

\* baseColor
CategoryBorder(category) == CATEGORY_COLORS[category]

\* adjustedColor + 'CC'
TaskFill(taskName) == adjustedColor(taskName) \o <<"C", "C">>

\* The caches left as they are
keepsColorCaches(caches) == caches

\* initializeColorCaches (chart-renderer.js:149-186) on the four caches: every
\* color of the configuration is a non-empty string, so nothing is thrown
initializeColorCaches(caches) ==
  [task |-> Assigned(caches.task, [n \in ColoredTasks |-> TaskFill(n)]),
   taskBorder |-> Assigned(caches.taskBorder, [n \in ColoredTasks |-> adjustedColor(n)]),
   category |-> Assigned(caches.category,
                         [n \in DOMAIN CATEGORY_COLORS |-> CategoryFill(n)]),
   categoryBorder |-> Assigned(caches.categoryBorder,
                               [n \in DOMAIN CATEGORY_COLORS |-> CategoryBorder(n)])]

\* clearColorCaches (errors.js:456-461): every key of the four caches is deleted
clearColorCaches(caches) == NoColorCaches

\* The lookups of the color getters in a sitting number at most MaxLookups
MaxLookups == 2

\* Names every object inherits a property for from Object.prototype
ObjectPrototypeNames == {"constructor", "toString"}

\* What cache[name] is for such a name when the cache has no entry of its
\* own: a function, not a string
Inherited(name) == <<"Object.prototype", name>>

\* '#ccccccCC'
GrayFill == <<"#", "c", "c", "c", "c", "c", "c", "C", "C">>

\* '#cccccc'
GrayBorder == <<"#", "c", "c", "c", "c", "c", "c">>

\* cache[name] || fallback, where cache is an object literal: an entry of its
\* own, else what it inherits, else undefined; every color is a non-empty string
Lookup(cache, name, fallback) ==
  IF name \in DOMAIN cache THEN cache[name]
  ELSE IF name \in ObjectPrototypeNames THEN Inherited(name)
  ELSE fallback

\* getTaskColor (chart-renderer.js:211-213)
getTaskColor(caches, task) == Lookup(caches.task, task, GrayFill)

\* getTaskBorderColor (chart-renderer.js:220-222)
getTaskBorderColor(caches, task) == Lookup(caches.taskBorder, task, GrayBorder)

\* getCategoryColor (chart-renderer.js:193-195)
getCategoryColor(caches, category) == Lookup(caches.category, category, GrayFill)

\* getCategoryBorderColor (chart-renderer.js:202-204)
getCategoryBorderColor(caches, category) == Lookup(caches.categoryBorder, category, GrayBorder)

\* The caches of the module
CachesOf(module) == IF module = "color-utils" THEN utilColorCaches ELSE colorCaches

\* The names the getters are called with: a task and a category of the
\* configuration, a column no category lists, the empty name, and names of
\* properties of Object.prototype
LookupNames == {"Ads", "BD - Research", "Advertising", "Travel", "", "constructor", "toString"}

\* The four getters of a module are called with a name; filled tells whether
\* the caches of the module held no entry, or those of the configuration
LookupColors(module, name) ==
  /\ Len(colorLookups) < MaxLookups
  /\ colorLookups' = Append(colorLookups,
       [module |-> module, name |-> name,
        empty |-> CachesOf(module) = NoColorCaches,
        task |-> getTaskColor(CachesOf(module), name),
        taskBorder |-> getTaskBorderColor(CachesOf(module), name),
        category |-> getCategoryColor(CachesOf(module), name),
        categoryBorder |-> getCategoryBorderColor(CachesOf(module), name)])
  /\ UNCHANGED <<dashVars, debVars, filterVars, pieVars, colorCaches, utilColorCaches,
                 listening, lateVars>>

\* initializeDashboard runs up to its await (loading-state.js:608-632): on
\* DOMContentLoaded, or from the retry button once the fetch of the run
\* before has failed. The caches are filled before any handler is registered.
\* setupAutoRefresh is never reached with dataSourceConnected set: the module
\* does not assign it (loading-state.js:593, 643).
initializeDashboard ==
  /\ \/ ~listening /\ fetchSeq = 0
     \/ /\ fetchSeq > 0
        /\ fetches[fetchSeq].kind = "init"
        /\ fetches[fetchSeq].status = "failed"
  /\ fetchSeq < MaxFetches
  /\ colorCaches' = initializeColorCaches(colorCaches)
  /\ listening' = TRUE
  /\ windowDataSourceConnected' = FALSE
  /\ fetchSeq' = fetchSeq + 1
  /\ fetches' = [f \in 1..(fetchSeq + 1) |->
                   IF f <= fetchSeq THEN fetches[f]
                   ELSE [kind |-> "init", status |-> "inflight"]]
  /\ UNCHANGED <<employeesData, filteredEmployeesData, activeStartWeek, activeEndWeek,
                 globalDisplayMode, globalLevelMode, chartDataCache, charts,
                 rendered, renderLog, env, committedBy, debVars, filterVars, pieVars,
                 utilColorCaches, colorLookups, rowCall, fetchVars, totalsCall,
                 dataSourceConnected, autoRefreshIntervalId, intervals, selectorVars>>

\* initializeColorCaches of color-utils is called
InitializeUtilColors ==
  /\ utilColorCaches' = initializeColorCaches(utilColorCaches)
  /\ UNCHANGED <<dashVars, debVars, filterVars, pieVars, colorCaches, listening, colorLookups, lateVars>>

\* clearColorCaches of color-utils is called
ClearColorCaches ==
  /\ utilColorCaches' = clearColorCaches(utilColorCaches)
  /\ UNCHANGED <<dashVars, debVars, filterVars, pieVars, colorCaches, listening, colorLookups, lateVars>>

-----------------------------------------------------------------------------
(* Percentages of the pie data functions: pie-chart.js:78-112,
   data-processor.js:246-316 *)

\* The items and the rows the pie data functions are called with number at
\* most MaxItems
MaxItems == 2

\* No call yet
NoPercentCall == [fn |-> "none", displayMode |-> "", levelMode |-> "", total |-> 0, items |-> <<>>]

\* |x|
Abs(x) == IF x < 0 THEN -x ELSE x

\* ((value / total) * 100).toFixed(1): a division by 0 gives NaN or an
\* infinity, and toFixed prints it as such; tenths is the number printed, in
\* tenths of a percent, rounded half away from zero
Percentage(value, total) ==
  IF total = 0
  THEN [kind |-> IF value = 0 THEN "NaN" ELSE IF value > 0 THEN "Infinity" ELSE "-Infinity",
        tenths |-> 0]
  ELSE [kind |-> "finite",
        tenths |-> (IF (value < 0) # (total < 0) THEN -1 ELSE 1)
                   * ((2000 * Abs(value) + Abs(total)) \div (2 * Abs(total)))]

\* isCostMode ? item.cost : item.hours
ItemValue(item, displayMode) == IF displayMode = "cost" THEN item.cost ELSE item.hours

\* The labels, the values and the colors of prepareChartData, given the
\* values and their total: one of each for every item of data; the getters
\* are those of color-utils
ChartDataOf(data, values, total, levelMode) ==
  [i \in DOMAIN data |->
     [name |-> data[i].name, hours |-> data[i].hours, value |-> values[i],
      percentage |-> Percentage(values[i], total),
      backgroundColor |-> IF levelMode = "category"
                          THEN getCategoryColor(utilColorCaches, data[i].name)
                          ELSE getTaskColor(utilColorCaches, data[i].name),
      borderColor |-> IF levelMode = "category"
                      THEN getCategoryBorderColor(utilColorCaches, data[i].name)
                      ELSE getTaskBorderColor(utilColorCaches, data[i].name)]]

\* PieChart.prepareChartData (pie-chart.js:78-112): total is the sum of the
\* values of all the items
prepareChartData(data, displayMode, levelMode) ==
  [fn |-> "prepareChartData", displayMode |-> displayMode, levelMode |-> levelMode,
   total |-> SumSeq([i \in DOMAIN data |-> ItemValue(data[i], displayMode)]),
   items |-> ChartDataOf(data, [i \in DOMAIN data |-> ItemValue(data[i], displayMode)],
                         SumSeq([i \in DOMAIN data |-> ItemValue(data[i], displayMode)]),
                         levelMode)]

\* calculateTotalsByCategory (data-processor.js:246-257): every value of the
\* column is added up, whatever its sign
calculateTotalsByCategory(employeeData, taskCategories) ==
  [category \in Range(taskCategories) |->
     SumSeq([i \in DOMAIN employeeData |-> RowHours(employeeData[i], category)])]

\* totalsByCategory[category] || 0
TotalOf(totalsByCategory, category) ==
  IF category \in DOMAIN totalsByCategory THEN totalsByCategory[category] ELSE 0

\* calculateTotalsByType (data-processor.js:264-272), as Object.entries of
\* its result
calculateTotalsByType(totalsByCategory) ==
  [t \in DOMAIN TASK_CATEGORIES |->
     [type |-> TASK_CATEGORIES[t][1],
      hours |-> SumSeq([k \in DOMAIN TASK_CATEGORIES[t][2] |->
                          TotalOf(totalsByCategory, TASK_CATEGORIES[t][2][k])])]]

\* The entries of preparePieData given totalHours: those with hours > 0
PieEntries(totalsByType, totalHours) ==
  LET HasHours(entry) == entry.hours > 0
      kept == SelectSeq(totalsByType, HasHours)
  IN [i \in DOMAIN kept |->
        [name |-> kept[i].type, hours |-> kept[i].hours, value |-> kept[i].hours,
         percentage |-> Percentage(kept[i].hours, totalHours),
         backgroundColor |-> <<>>, borderColor |-> <<>>]]

\* preparePieData (data-processor.js:307-316): totalHours is the sum of all
\* the values, those that are filtered out included
preparePieData(totalsByType) ==
  [fn |-> "preparePieData", displayMode |-> "hours", levelMode |-> "category",
   total |-> SumSeq([i \in DOMAIN totalsByType |-> totalsByType[i].hours]),
   items |-> PieEntries(totalsByType,
                        SumSeq([i \in DOMAIN totalsByType |-> totalsByType[i].hours]))]

\* The items PieChart.render and PieChart.update are handed
PieItems ==
  {[name |-> n, hours |-> h, cost |-> h * EMPLOYEE_RATES["kyle"]] :
     n \in {"Advertising", "Ads"}, h \in 0..2}

PieItemInputs == UNION {[1..k -> PieItems] : k \in 0..MaxItems}

\* The rows the totals of preparePieData are computed from
PieShapes == {Hrs(0, 0, 0, 0, 0, 0), Hrs(2, 0, 0, 0, 0, 0), Hrs(0, -1, 0, 0, 2, 0), Hrs(0, -2, 0, 0, 2, 0)}

PieRowInputs ==
  UNION {[1..k -> {[User |-> "kyle@x.com", WeekRange |-> w, oid |-> 0, hrs |-> h] :
                     w \in Weeks, h \in PieShapes}] : k \in 0..MaxItems}

\* PieChart.prepareChartData is called on items
PrepareChartDataCall(data, displayMode, levelMode) ==
  /\ percentCall' = prepareChartData(data, displayMode, levelMode)
  /\ UNCHANGED <<dashVars, debVars, filterVars, colorVars, lateVars>>

\* preparePieData is called on the totals by type of rows
PreparePieDataCall(employeeData) ==
  /\ percentCall' = preparePieData(calculateTotalsByType(
                      calculateTotalsByCategory(employeeData,
                                                getTaskCategories(employeeData))))
  /\ UNCHANGED <<dashVars, debVars, filterVars, colorVars, lateVars>>

-----------------------------------------------------------------------------
(* Rows with any User cell: data-processor.js:202-241, loading-state.js:
   1124-1135, 1594-1632 *)

\* The rows of a call number at most MaxLooseRows
MaxLooseRows == 2

\* No call yet
NoRowCall == [fn |-> "none", data |-> <<>>, raised |-> FALSE, buckets |-> <<>>, rows |-> <<>>]

\* Papa.parse with dynamicTyping gives null for a blank cell and a number for
\* a cell of digits; userType is the type of row.User, and User its text
\* when it is a string
LooseRows ==
  {[User |-> u[1], userType |-> u[2], WeekRange |-> "Mar 10 - Mar 15 (2025)", oid |-> 0, hrs |-> h] :
     u \in {<<"kyle@x.com", "string">>, <<"Bob@Kyle.org", "string">>, <<"", "string">>,
            <<"", "null">>, <<"", "number">>},
     h \in {Hrs(2, 0, 0, 0, 0, 0), Hrs(0, -1, 0, 0, 2, 1)}}

LooseInputs == UNION {[1..k -> LooseRows] : k \in 0..MaxLooseRows}

\* row.User.toLowerCase() raises a TypeError: null and numbers have no such
\* method
UserRaises(row) == row.userType # "string"

\* calculateDetailedTaskData(employeeData, taskCategories) is called: line 216
\* is evaluated for every row
CalculateCall(employeeData) ==
  /\ rowCall' =
       IF \E i \in DOMAIN employeeData : UserRaises(employeeData[i])
       THEN [fn |-> "calculateDetailedTaskData", data |-> employeeData, raised |-> TRUE,
             buckets |-> <<>>, rows |-> <<>>]
       ELSE [fn |-> "calculateDetailedTaskData", data |-> employeeData, raised |-> FALSE,
             buckets |-> calculateDetailedTaskData(employeeData, CsvTaskColumns),
             rows |-> employeeData]
  /\ UNCHANGED <<dashVars, debVars, filterVars, pieVars, colorVars, fetchVars, tailVars>>

\* filterData(data) is called with a global dashboardState: line 1606 is
\* evaluated for every row the week step has left, if an employee is selected
LooseFilterCall(data) ==
  /\ rowCall' =
       IF /\ filterState.activeEmployee # "all"
          /\ \E i \in DOMAIN weekRangeFilter(data, filterState) :
                UserRaises(weekRangeFilter(data, filterState)[i])
       THEN [fn |-> "filterData", data |-> data, raised |-> TRUE,
             buckets |-> <<>>, rows |-> <<>>]
       ELSE [fn |-> "filterData", data |-> data, raised |-> FALSE,
             buckets |-> <<>>, rows |-> filterData(data, filterState)]
  /\ UNCHANGED <<dashVars, debVars, filterVars, pieVars, colorVars, fetchVars, tailVars>>

\* The employeeData of initializeEmployeeCharts, when no User raises
LooseEmployeeData(data, employeeName) ==
  IF \E i \in DOMAIN data : UserRaises(data[i]) THEN <<>>
  ELSE RowsOfEmployee(data, employeeName)

\* initializeEmployeeCharts(employeeName) is called with employeesData and
\* filteredEmployeesData both data: line 1134 is evaluated for every row
LooseChartsCall(data, employeeName) ==
  /\ rowCall' =
       IF \E i \in DOMAIN data : UserRaises(data[i])
       THEN [fn |-> "initializeEmployeeCharts", data |-> data, raised |-> TRUE,
             buckets |-> <<>>, rows |-> <<>>]
       ELSE [fn |-> "initializeEmployeeCharts", data |-> data, raised |-> FALSE,
             buckets |-> IF LooseEmployeeData(data, employeeName) = <<>> THEN <<>>
                         ELSE calculateDetailedTaskData(
                                LooseEmployeeData(data, employeeName), CsvTaskColumns),
             rows |-> LooseEmployeeData(data, employeeName)]
  /\ UNCHANGED <<dashVars, debVars, filterVars, pieVars, colorVars, fetchVars, tailVars>>

-----------------------------------------------------------------------------
(* fetchEmployeeData with the local storage cache: data-processor.js:356-631 *)

\* The clock runs up to MaxClock hours, in steps of ClockStep hours
MaxClock == 36
ClockStep == 12

\* The cache is valid for 24 hours (data-processor.js:382)
CacheHours == 24

\* The number of fetch methods (data-processor.js:419-485)
MethodCount == 5

\* Nothing is stored under the key
NoSnapshot == [stored |-> FALSE, timestamp |-> 0, data |-> <<>>]

\* No call yet
NoFetchCall == [fn |-> "none", outcomes |-> <<>>, tried |-> 0, source |-> "", raised |-> "", data |-> <<>>, cached |-> NoSnapshot, at |-> 0]

\* The text of a response that is ok: empty, a CSV that Papa.parse reports
\* errors for, a header without rows, or one of two sheets
ResponseTexts == {"", "malformed", "header", "sheet A", "sheet B"}

\* What the fetch methods do when the proxies that answer serve the text: a
\* method throws (no configuration, a response that is not ok, a network
\* error) or returns the text
MethodOutcomes(answers, text) ==
  [k \in 1..MethodCount |-> IF answers[k] THEN text ELSE "throws"]

\* Papa.parse(csvText, {header, dynamicTyping, skipEmptyLines})
ParseCsv(csvText) ==
  [errors |-> IF csvText = "malformed" THEN 1 ELSE 0,
   data |-> CASE csvText = "sheet A" -> <<"A1", "A2">>
              [] csvText = "sheet B" -> <<"B1">>
              [] OTHER -> <<>>]

\* The methods the loop calls: up to the first that does not throw
Tried(outcomes) ==
  IF \A k \in DOMAIN outcomes : outcomes[k] = "throws" THEN Len(outcomes)
  ELSE Least({k \in DOMAIN outcomes : outcomes[k] # "throws"})

\* csvText after the loop: null when every method threw
CsvText(outcomes) ==
  IF outcomes[Tried(outcomes)] = "throws" THEN "" ELSE outcomes[Tried(outcomes)]

\* loadDataFromCache (data-processor.js:373-393): null without an entry or
\* with one older than 24 hours
loadDataFromCache(cached, at) ==
  IF ~cached.stored THEN <<>>
  ELSE IF at - cached.timestamp > CacheHours THEN <<>>
  ELSE cached.data

\* fetchEmployeeData once the loop has left csvText (data-processor.js:
\* 505-601), with the methods it tried: !csvText holds for null and for the
\* empty text
afterLoop(outcomes, tried, csvText, cached, at) ==
  IF csvText = ""
  THEN IF loadDataFromCache(cached, at) # <<>>
       THEN [fn |-> "fetchEmployeeData", outcomes |-> outcomes, tried |-> tried,
             source |-> "cache", raised |-> "", data |-> loadDataFromCache(cached, at),
             cached |-> cached, at |-> at]
       ELSE [fn |-> "fetchEmployeeData", outcomes |-> outcomes, tried |-> tried,
             source |-> "", raised |-> "DataFetchError", data |-> <<>>,
             cached |-> cached, at |-> at]
  ELSE IF ParseCsv(csvText).errors > 0 \/ ParseCsv(csvText).data = <<>>
  THEN [fn |-> "fetchEmployeeData", outcomes |-> outcomes, tried |-> tried,
        source |-> "", raised |-> "DataFetchError", data |-> <<>>,
        cached |-> cached, at |-> at]
  ELSE [fn |-> "fetchEmployeeData", outcomes |-> outcomes, tried |-> tried,
        source |-> "method", raised |-> "", data |-> ParseCsv(csvText).data,
        cached |-> cached, at |-> at]

\* fetchEmployeeData
fetchEmployeeData(outcomes, cached, at) ==
  afterLoop(outcomes, Tried(outcomes), CsvText(outcomes), cached, at)

\* saveDataToCache (data-processor.js:356-367): setItem may raise (no room),
\* which is logged and leaves the entry
saveDataToCache(data, at, stores) ==
  IF stores THEN [stored |-> TRUE, timestamp |-> at, data |-> data] ELSE snapshot

\* fetchEmployeeData is called; the proxies that answer serve the text
FetchEmployeeDataCall(answers, text, stores) ==
  /\ fetchCall' = fetchEmployeeData(MethodOutcomes(answers, text), snapshot, clock)
  /\ snapshot' = IF fetchCall'.source = "method"
                 THEN saveDataToCache(fetchCall'.data, clock, stores)
                 ELSE snapshot
  /\ UNCHANGED <<dashVars, debVars, filterVars, pieVars, colorVars, rowCall, clock, tailVars>>

\* Time passes
ClockAdvance ==
  /\ clock + ClockStep <= MaxClock
  /\ clock' = clock + ClockStep
  /\ UNCHANGED <<dashVars, debVars, filterVars, pieVars, colorVars, rowCall, snapshot,
                 fetchCall, tailVars>>

-----------------------------------------------------------------------------
(* calculateTotalsByCategory and calculateTotalsByType on whole row sets *)

MaxTotalRows == 2

\* No call yet
NoTotalsCall ==
  [called |-> FALSE, data |-> <<>>, taskCategories |-> <<>>, byCategory |-> <<>>,
   byType |-> <<>>]

\* The rows the totals are computed from: hours of either sign, in columns of
\* several categories and in Travel, which no category lists
TotalsShapes ==
  {Hrs(0, 0, 0, 0, 0, 0), Hrs(2, 1, 0, 0, 0, 0), Hrs(0, -1, 0, 0, 2, 0),
   Hrs(1, 0, 2, 0, 0, 1), Hrs(0, 0, 0, 1, 0, 2)}

TotalsRowInputs ==
  UNION {[1..k -> {[User |-> "kyle@x.com", WeekRange |-> w, oid |-> 0, hrs |-> h] :
                     w \in Weeks, h \in TotalsShapes}] : k \in 0..MaxTotalRows}

\* The task columns handed in: those of the sheet, or those of them that
\* TASK_CATEGORIES lists
TotalsColumnInputs ==
  LET Listed(task) == \E c \in DOMAIN TASK_CATEGORIES : task \in Range(TASK_CATEGORIES[c][2])
  IN {CsvTaskColumns, SelectSeq(CsvTaskColumns, Listed)}

\* calculateTotalsByCategory (data-processor.js:249-261) and then
\* calculateTotalsByType (264-272) are called on employeeData
CalculateTotalsCall(employeeData, taskCategories) ==
  /\ totalsCall' =
       [called |-> TRUE, data |-> employeeData, taskCategories |-> taskCategories,
        byCategory |-> calculateTotalsByCategory(employeeData, taskCategories),
        byType |-> calculateTotalsByType(
                     calculateTotalsByCategory(employeeData, taskCategories))]
  /\ UNCHANGED <<dashVars, debVars, filterVars, pieVars, colorVars, rowCall, fetchVars,
                 refreshVars, selectorVars>>

-----------------------------------------------------------------------------
(* DisplayModeSelector and the modes of dashboardState:
   display-mode-selector.js:8-121, loading-states.css:120-165 *)

\* Before new DisplayModeSelector()
NoElements ==
  [kind |-> "none", displayMode |-> "hours", levelMode |-> "category", listening |-> FALSE]

\* The options of the two controls
DisplayOptions == {"hours", "cost"}
LevelOptions == {"category", "task"}

MaxNotified == 3

\* element.value = v, and what element.value is afterwards: a select without
\* such an option holds '', any other control holds v
ValueAfter(kind, options, v) == IF kind = "select" /\ v \notin options THEN "" ELSE v

\* dashboardState.setDisplayMode(mode) and setLevelMode(mode) on
\* s = [elements, state, raised]: an invalid mode throws, a valid one goes
\* through setState, which notifies the listeners
stateSetDisplayMode(s, mode) ==
  IF mode # "hours" /\ mode # "cost" THEN [s EXCEPT !.raised = TRUE]
  ELSE [s EXCEPT !.state.displayMode = mode, !.state.notified = @ + 1]
stateSetLevelMode(s, mode) ==
  IF mode # "category" /\ mode # "task" THEN [s EXCEPT !.raised = TRUE]
  ELSE [s EXCEPT !.state.levelMode = mode, !.state.notified = @ + 1]

\* updateDisplayMode and updateLevelMode (display-mode-selector.js:55-67)
updateDisplayMode(s) == stateSetDisplayMode(s, s.elements.displayMode)
updateLevelMode(s) == stateSetLevelMode(s, s.elements.levelMode)

\* setDisplayMode(mode) and setLevelMode(mode) (display-mode-selector.js:89-105)
setDisplayMode(s, mode) ==
  IF s.elements.displayMode # mode
  THEN updateDisplayMode(
         [s EXCEPT !.elements.displayMode =
                      ValueAfter(s.elements.kind, DisplayOptions, mode)])
  ELSE s
setLevelMode(s, mode) ==
  IF s.elements.levelMode # mode
  THEN updateLevelMode(
         [s EXCEPT !.elements.levelMode =
                      ValueAfter(s.elements.kind, LevelOptions, mode)])
  ELSE s

\* The second statement of reset(), which an exception of the first skips
thenSetLevelMode(s1, mode) == IF s1.raised THEN s1 ELSE setLevelMode(s1, mode)

\* reset() (display-mode-selector.js:110-113)
reset(s) == thenSetLevelMode(setDisplayMode(s, "percentage"), "category")

\* The selector as the operations see it, and after an operation named op
SelectorNow == [elements |-> elements, state |-> dashboardModes, raised |-> FALSE]
SelectorBecomes(s, op, arg) ==
  /\ s.state.notified <= MaxNotified
  /\ elements' = s.elements
  /\ dashboardModes' = s.state
  /\ selectorCall' = [op |-> op, arg |-> arg, raised |-> s.raised]
  /\ UNCHANGED <<dashVars, debVars, filterVars, pieVars, colorVars, rowCall, fetchVars,
                 totalsCall, refreshVars>>

\* new DisplayModeSelector() on a page whose two controls are of the kind
NewDisplayModeSelector(kind) ==
  /\ elements.kind = "none"
  /\ SelectorBecomes([SelectorNow EXCEPT !.elements.kind = kind,
                                         !.elements.listening = TRUE], "new", kind)

\* The user picks the option v of the display-mode control: change event
DisplayModeChange(v) ==
  /\ elements.kind # "none"
  /\ SelectorBecomes(IF elements.listening
                     THEN updateDisplayMode([SelectorNow EXCEPT !.elements.displayMode = v])
                     ELSE [SelectorNow EXCEPT !.elements.displayMode = v],
                     "change", v)

\* The user picks the option v of the level-mode control: change event
LevelModeChange(v) ==
  /\ elements.kind # "none"
  /\ SelectorBecomes(IF elements.listening
                     THEN updateLevelMode([SelectorNow EXCEPT !.elements.levelMode = v])
                     ELSE [SelectorNow EXCEPT !.elements.levelMode = v],
                     "change", v)

SetDisplayModeCall(mode) ==
  /\ elements.kind # "none"
  /\ SelectorBecomes(setDisplayMode(SelectorNow, mode), "setDisplayMode", mode)

SetLevelModeCall(mode) ==
  /\ elements.kind # "none"
  /\ SelectorBecomes(setLevelMode(SelectorNow, mode), "setLevelMode", mode)

ResetCall ==
  /\ elements.kind # "none"
  /\ SelectorBecomes(reset(SelectorNow), "reset", "")

\* destroy() (display-mode-selector.js:118-121): removeEventListener is
\* handed the methods, not the arrow functions setupEventListeners
\* registered, so it removes nothing
destroy(s) == s

DestroyCall ==
  /\ elements.kind # "none"
  /\ SelectorBecomes(destroy(SelectorNow), "destroy", "")

-----------------------------------------------------------------------------
(* Specifications *)

\* The globals of the modules as they are evaluated (loading-state.js:586-599,
\* chart-renderer.js:16-41): nothing is drawn
InitGlobals ==
  /\ employeesData = <<>>
  /\ filteredEmployeesData = <<>>
  /\ activeStartWeek = "all"
  /\ activeEndWeek = "all"
  /\ globalDisplayMode = "hours"
  /\ globalLevelMode = "category"
  /\ chartDataCache = <<>>
  /\ charts = [e \in Range(EmployeeTabs) |-> {}]
  /\ rendered = [e \in Range(EmployeeTabs) |-> Blank]
  /\ renderLog = [source |-> <<>>, rows |-> <<>>]
  /\ env \in EnvChoices
  /\ committedBy = 0
  /\ now = 0
  /\ timeout = NoTimer
  /\ calls = <<>>
  /\ execs = <<>>
  /\ chartData = [c \in ChartObjects |-> [data |-> "none", destroyed |-> FALSE]]

\* The page once initializeDashboard has reached its await (loading-state.js:
\* 608-632): the color caches are filled, the handlers are registered and
\* fetch 1 is in flight
InitPage ==
  /\ InitGlobals
  /\ fetches = <<[kind |-> "init", status |-> "inflight"]>>
  /\ fetchSeq = 1
  /\ colorCaches = initializeColorCaches(NoColorCaches)
  /\ utilColorCaches = NoColorCaches
  /\ listening = TRUE
  /\ colorLookups = <<>>

\* No aggregation function has been called on loose rows
InitLate ==
  /\ rowCall = NoRowCall
  /\ snapshot = NoSnapshot
  /\ clock = 0
  /\ fetchCall = NoFetchCall
  /\ totalsCall = NoTotalsCall
  /\ windowDataSourceConnected = FALSE
  /\ dataSourceConnected = FALSE
  /\ autoRefreshIntervalId = 0
  /\ intervals = {}
  /\ elements = NoElements
  /\ dashboardModes = [displayMode |-> "hours", levelMode |-> "category", notified |-> 0]
  /\ selectorCall = [op |-> "none", arg |-> "", raised |-> FALSE]

\* No pie data function has been called
InitPie ==
  /\ percentCall = NoPercentCall

\* The state manager as constructed; no utility has been called
InitUtil ==
  /\ filterState = DefaultFilterState
  /\ filterCalls = <<>>
  /\ comparedLabels = <<>>
  /\ comparisons = <<>>
  /\ InitPie
  /\ InitLate

Init == InitPage /\ InitUtil

\* The dashboard with its fetches, its filter buttons and its uploads
Next ==
  \/ \E f \in 1..MaxFetches, d \in Sheets : FetchReturns(f, d)
  \/ \E f \in 1..MaxFetches : FetchFails(f)
  \/ RefreshClick
  \/ \E startWeek \in WeekOptions, endWeek \in WeekOptions :
       ApplyFilter(startWeek, endWeek)
  \/ ResetFilter
  \/ \E d \in Sheets : FileUpload(d)

\* The date engine plays no part in it
InitDashboard == Init /\ env.dateEngine = "lenient"

Spec == InitDashboard /\ [][Next]_vars

\* The dashboard drawing any data set the first fetch can deliver, in every
\* display and level mode
NextCharts ==
  \/ \E d \in Datasets : FetchReturns(1, d)
  \/ ToggleDisplay
  \/ ToggleLevel

\* The reset button plays no part in it
InitCharts == Init /\ ~env.dashboardState

SpecCharts == InitCharts /\ [][NextCharts]_vars

\* The debounced chart update alone
NextDebounce ==
  \/ \E chart \in ChartObjects \cup {NoChart}, newData \in DataObjects :
       updateChartData(chart, newData)
  \/ TimerFires
  \/ Advance
  \/ \E chart \in ChartObjects : DestroyChart(chart)

\* The page and the engine play no part in it
InitDebounce ==
  Init /\ env = [pieCanvas |-> TRUE, dateEngine |-> "lenient", dashboardState |-> TRUE]

SpecDebounce == InitDebounce /\ [][NextDebounce]_vars

\* The filter functions called on any rows, under any filter state
NextFilter ==
  \/ \E data \in FilterInputs : FilterDataFirst(data)
  \/ \E data \in FilterInputs : FilterDataAgain(data)
  \/ \E data \in FilterInputs : FilterByWeekRangeCall(data)
  \/ ValidateCall

\* The inputs of the filter functions: the global dashboardState may be missing
InitFilter ==
  /\ InitPage
  /\ env.pieCanvas /\ env.dateEngine = "lenient"
  /\ filterState \in FilterStates
  /\ filterCalls = <<>>
  /\ comparedLabels = <<>>
  /\ comparisons = <<>>
  /\ InitPie
  /\ InitLate

SpecFilter == InitFilter /\ [][NextFilter]_vars

\* compareWeekRanges on any three labels
NextLabels == CompareLabels

InitLabels ==
  /\ InitPage
  /\ env = [pieCanvas |-> TRUE, dateEngine |-> "lenient", dashboardState |-> TRUE]
  /\ filterState = DefaultFilterState
  /\ filterCalls = <<>>
  /\ comparedLabels \in [1..3 -> Labels]
  /\ comparisons = <<>>
  /\ InitPie
  /\ InitLate

SpecLabels == InitLabels /\ [][NextLabels]_vars


\* The pie data functions called on any items and on the totals of any rows
NextPie ==
  \/ \E data \in PieItemInputs, displayMode \in {"hours", "cost"},
        levelMode \in {"category", "task"} :
       PrepareChartDataCall(data, displayMode, levelMode)
  \/ \E employeeData \in PieRowInputs : PreparePieDataCall(employeeData)

\* The page and the engine play no part in it
InitPieCalls ==
  Init /\ env = [pieCanvas |-> TRUE, dateEngine |-> "lenient", dashboardState |-> TRUE]

SpecPie == InitPieCalls /\ [][NextPie]_vars


\* The page from the evaluation of its modules on: initializeDashboard, the
\* fetches, the buttons, the switches and the uploads, and the color caches
\* of color-utils filled and cleared in between
NextStartup ==
  \/ initializeDashboard
  \/ \E f \in 1..MaxFetches, d \in Sheets : FetchReturns(f, d)
  \/ \E f \in 1..MaxFetches : FetchFails(f)
  \/ RefreshClick
  \/ \E startWeek \in WeekOptions, endWeek \in WeekOptions :
       ApplyFilter(startWeek, endWeek)
  \/ ResetFilter
  \/ \E d \in Sheets : FileUpload(d)
  \/ ToggleDisplay
  \/ ToggleLevel
  \/ InitializeUtilColors
  \/ ClearColorCaches

\* The modules are evaluated, DOMContentLoaded has not fired
InitStartup ==
  /\ InitGlobals
  /\ env = [pieCanvas |-> TRUE, dateEngine |-> "lenient", dashboardState |-> TRUE]
  /\ fetches = <<>>
  /\ fetchSeq = 0
  /\ colorCaches = NoColorCaches
  /\ utilColorCaches = NoColorCaches
  /\ listening = FALSE
  /\ colorLookups = <<>>
  /\ filterState = DefaultFilterState
  /\ filterCalls = <<>>
  /\ comparedLabels = <<>>
  /\ comparisons = <<>>
  /\ InitPie
  /\ InitLate

SpecStartup == InitStartup /\ [][NextStartup]_vars


\* The color caches of the two modules filled, those of color-utils cleared,
\* and the getters called in between
NextColors ==
  \/ initializeDashboard
  \/ InitializeUtilColors
  \/ ClearColorCaches
  \/ \E module \in {"chart-renderer", "color-utils"}, name \in LookupNames :
       LookupColors(module, name)

SpecColors == InitStartup /\ [][NextColors]_vars


\* The aggregation functions called on rows with any User cell
NextRows ==
  \/ \E employeeData \in LooseInputs : CalculateCall(employeeData)
  \/ \E data \in LooseInputs : LooseFilterCall(data)
  \/ \E data \in LooseInputs, employeeName \in {"kyle", "victoria"} :
       LooseChartsCall(data, employeeName)

\* The page is complete; an employee may be selected
InitRows ==
  /\ InitPage
  /\ env = [pieCanvas |-> TRUE, dateEngine |-> "lenient", dashboardState |-> TRUE]
  /\ filterState \in {DefaultFilterState, [DefaultFilterState EXCEPT !.activeEmployee = "Kyle"]}
  /\ filterCalls = <<>>
  /\ comparedLabels = <<>>
  /\ comparisons = <<>>
  /\ InitPie
  /\ InitLate

SpecRows == InitRows /\ [][NextRows]_vars


\* fetchEmployeeData called again and again while time passes
NextFetch ==
  \/ \E answers \in [1..MethodCount -> BOOLEAN], text \in ResponseTexts,
        stores \in BOOLEAN :
       FetchEmployeeDataCall(answers, text, stores)
  \/ ClockAdvance

InitFetch ==
  Init /\ env = [pieCanvas |-> TRUE, dateEngine |-> "lenient", dashboardState |-> TRUE]

SpecFetch == InitFetch /\ [][NextFetch]_vars

\* The totals functions called on one row set after another
NextTotals ==
  \E employeeData \in TotalsRowInputs, taskCategories \in TotalsColumnInputs :
    CalculateTotalsCall(employeeData, taskCategories)

InitTotals ==
  Init /\ env = [pieCanvas |-> TRUE, dateEngine |-> "lenient", dashboardState |-> TRUE]

SpecTotals == InitTotals /\ [][NextTotals]_vars

\* The operations of a DisplayModeSelector in any order
NextSelector ==
  \/ \E kind \in {"select", "input"} : NewDisplayModeSelector(kind)
  \/ \E v \in DisplayOptions : DisplayModeChange(v)
  \/ \E v \in LevelOptions : LevelModeChange(v)
  \/ \E mode \in DisplayOptions : SetDisplayModeCall(mode)
  \/ \E mode \in LevelOptions : SetLevelModeCall(mode)
  \/ ResetCall
  \/ DestroyCall

InitSelector ==
  Init /\ env = [pieCanvas |-> TRUE, dateEngine |-> "lenient", dashboardState |-> TRUE]

SpecSelector == InitSelector /\ [][NextSelector]_vars


-----------------------------------------------------------------------------
(* Properties *)

RECURSIVE SumOver(_, _)
\* The sum of f[k] over the keys k of the finite set S
SumOver(f, S) ==
  IF S = {} THEN 0
  ELSE LET k == CHOOSE x \in S : TRUE IN f[k] + SumOver(f, S \ {k})

\* The tabs whose summary card the last updateAllEmployeeCharts computed from rows
Computed == {e \in Range(EmployeeTabs) : rendered[e].state \in {"drawn", "threw"}}

\* The tabs it drew completely
Drawn == {e \in Range(EmployeeTabs) : rendered[e].state = "drawn"}

\* The hours of a task a row counts for: its value where that is > 0
CountedHours(row, task) == IF row.hrs[task] > 0 THEN row.hrs[task] ELSE 0

\* The rate of the lowercased local part of a User, read off the rate table:
\* kyle is an employee, bob is not
RateOfUser(user) ==
  CASE user = "kyle@x.com" -> EMPLOYEE_RATES["kyle"]
    [] user = "Bob@Kyle.org" -> EMPLOYEE_RATES["default"]
    [] user = "austin@kyle.io" -> EMPLOYEE_RATES["austin"]

\* C1: calculateDetailedTaskData: every task bucket's totalHours is the sum
\* of the task's hours over the rows where they are > 0, its totalCost the sum
\* over the same rows of hours times the rate of the row's employee key
\* (the default rate for an unknown employee), and byEmployee's hours and
\* costs add up to totalHours and totalCost.
C1_BucketSums ==
  \A e \in Computed :
    LET rows == rendered[e].rows
        buckets == rendered[e].buckets
    IN /\ DOMAIN buckets = Range(CsvTaskColumns)
       /\ \A task \in DOMAIN buckets :
            LET b == buckets[task]
            IN /\ b.totalHours =
                    SumSeq([i \in DOMAIN rows |-> CountedHours(rows[i], task)])
               /\ b.totalCost =
                    SumSeq([i \in DOMAIN rows |->
                              CountedHours(rows[i], task) * RateOfUser(rows[i].User)])
               /\ SumOver([k \in DOMAIN b.byEmployee |-> b.byEmployee[k].hours],
                          DOMAIN b.byEmployee) = b.totalHours
               /\ SumOver([k \in DOMAIN b.byEmployee |-> b.byEmployee[k].cost],
                          DOMAIN b.byEmployee) = b.totalCost

\* One row of kyle with 2 hours of BD - Research gives 2 hours and 40.00
C1_Witness ==
  /\ "kyle" \in Computed
  /\ Len(rendered["kyle"].rows) = 1
  /\ rendered["kyle"].rows[1].User = "kyle@x.com"
  /\ rendered["kyle"].rows[1].hrs["BD - Research"] = 2
  /\ rendered["kyle"].buckets["BD - Research"].totalHours = 2
  /\ rendered["kyle"].buckets["BD - Research"].totalCost = 4000


\* The sum of the totalCost, and of the totalHours, of all the task buckets
BucketCost(buckets) ==
  SumSeq([i \in DOMAIN CsvTaskColumns |-> buckets[CsvTaskColumns[i]].totalCost])
BucketHours(buckets) ==
  SumSeq([i \in DOMAIN CsvTaskColumns |-> buckets[CsvTaskColumns[i]].totalHours])

\* The rows of a week among rows
RowsOfWeek(rows, week) ==
  LET InWeek(row) == row.WeekRange = week IN SelectSeq(rows, InWeek)

\* C2: every cost the dashboard reports is the sum over the contributing rows
\* of hours times the rate of the row's own employee key: the total
\* compensation of the summary card, and in cost mode each week's value of
\* the trend's total series, equal the sum of totalCost over the task buckets
\* calculateDetailedTaskData computes for the same rows.
C2_CostsAreRowCosts ==
  /\ \A e \in Computed :
       rendered[e].summary.totalCompensation = BucketCost(rendered[e].buckets)
  /\ \A e \in Drawn :
       LET trend == rendered[e].trend
       IN (trend.shown /\ globalDisplayMode = "cost") =>
            \A w \in DOMAIN trend.labels :
              trend.datasets[Len(trend.datasets)].data[w] =
                BucketCost(calculateDetailedTaskData(
                             RowsOfWeek(rendered[e].rows, trend.labels[w]),
                             CsvTaskColumns))

\* The hours and the cost of the buckets of the tasks TASK_CATEGORIES lists
\* for the category number c
CategoryHours(buckets, c) ==
  SumOver([task \in DOMAIN buckets |-> buckets[task].totalHours],
          DOMAIN buckets \cap Range(TASK_CATEGORIES[c][2]))
CategoryCost(buckets, c) ==
  SumOver([task \in DOMAIN buckets |-> buckets[task].totalCost],
          DOMAIN buckets \cap Range(TASK_CATEGORIES[c][2]))

\* items holds the category totals of buckets, a category without hours left out
IsCategoryView(items, buckets) ==
  /\ \A i \in DOMAIN items : items[i].name \in Range(CategoryNames)
  /\ \A c \in DOMAIN CategoryNames :
       LET hits == {i \in DOMAIN items : items[i].name = CategoryNames[c]}
       IN IF CategoryHours(buckets, c) > 0
          THEN /\ Cardinality(hits) = 1
               /\ \A i \in hits : /\ items[i].hours = CategoryHours(buckets, c)
                                  /\ items[i].cost = CategoryCost(buckets, c)
          ELSE hits = {}

\* items holds every task with hours, typed by its category, '' if it has none
IsTaskView(items, buckets) ==
  /\ \A i \in DOMAIN items : items[i].name \in DOMAIN buckets
  /\ \A task \in DOMAIN buckets :
       LET hits == {i \in DOMAIN items : items[i].name = task}
           cats == {c \in DOMAIN CategoryNames : task \in Range(TASK_CATEGORIES[c][2])}
       IN IF buckets[task].totalHours > 0
          THEN /\ Cardinality(hits) = 1
               /\ \A i \in hits :
                    /\ items[i].hours = buckets[task].totalHours
                    /\ items[i].cost = buckets[task].totalCost
                    /\ IF cats = {} THEN items[i].type = ""
                       ELSE \E c \in cats : items[i].type = CategoryNames[c]
          ELSE hits = {}

\* C3: in category mode each category's hours and cost, in the bar chart and
\* in the pie chart, are the sums of totalHours and totalCost over the buckets
\* of exactly the tasks TASK_CATEGORIES lists for it, so that a task of no
\* category adds to none; in task mode that task is still there, with type ''.
C3_CategoryTotals ==
  /\ \A e \in Drawn :
       IF globalLevelMode = "category"
       THEN IsCategoryView(rendered[e].bar, rendered[e].buckets)
       ELSE IsTaskView(rendered[e].bar, rendered[e].buckets)
  /\ \A e \in Computed :
       IF globalLevelMode = "category"
       THEN IsCategoryView(rendered[e].pie.items, rendered[e].buckets)
       ELSE IsTaskView(rendered[e].pie.items, rendered[e].buckets)

\* Category mode, a category fed by two tasks, and hours on the task of no
\* category; and task mode with that task shown
C3_Witness ==
  \E e \in Drawn :
    /\ rendered[e].buckets["BD - Research"].totalHours > 0
    /\ rendered[e].buckets["BD - Emailing"].totalHours > 0
    /\ rendered[e].buckets["Travel"].totalHours > 0
    /\ globalLevelMode = "category"
    /\ \E i \in DOMAIN rendered[e].bar :
         /\ rendered[e].bar[i].name = "Business Development"
         /\ rendered[e].bar[i].hours > rendered[e].buckets["BD - Research"].totalHours
    /\ BucketHours(rendered[e].buckets) >
         SumSeq([i \in DOMAIN rendered[e].bar |-> rendered[e].bar[i].hours])

\* The first task, in bucket order, among those of the most hours
TopTask(buckets) ==
  LET best == {i \in DOMAIN CsvTaskColumns :
                 \A j \in DOMAIN CsvTaskColumns :
                   buckets[CsvTaskColumns[j]].totalHours
                     <= buckets[CsvTaskColumns[i]].totalHours}
  IN CsvTaskColumns[CHOOSE i \in best : \A j \in best : i <= j]

\* C4: the most time-consuming activity of the summary card is a bucket of
\* the most totalHours among the buckets with hours, the first of them in
\* bucket order when several tie, in hours mode and in cost mode alike, and
\* the cost shown with it is that bucket's cost.
C4_MostTimeByHours ==
  \A e \in Computed :
    LET buckets == rendered[e].buckets
        summary == rendered[e].summary
    IN IF BucketHours(buckets) > 0
       THEN /\ summary.mostTimeActivity = TopTask(buckets)
            /\ summary.mostTimeHours = buckets[TopTask(buckets)].totalHours
            /\ summary.mostTimeCost = buckets[TopTask(buckets)].totalCost
       ELSE summary.mostTimeActivity = "None"

\* Cost mode, two buckets tie on hours and the later one costs more
C4_Witness ==
  \E e \in Computed :
    /\ globalDisplayMode = "cost"
    /\ rendered[e].summary.mostTimeActivity = "BD - Research"
    /\ rendered[e].buckets["Ads"].totalHours
         = rendered[e].buckets["BD - Research"].totalHours
    /\ rendered[e].buckets["Ads"].totalCost
         > rendered[e].buckets["BD - Research"].totalCost


\* The distinct 'Week Range' labels of rows
WeeksOf(rows) == {rows[i].WeekRange : i \in DOMAIN rows}

\* C8: when a tab's rows span at least 2 distinct week labels, the labels
\* passed to initializeTimeLineChart are in non-decreasing order of the start
\* date compareWeekRanges derives from them, whatever the order of the rows.
C8_TrendWeeksInOrder ==
  \A e \in Drawn :
    Cardinality(WeeksOf(rendered[e].rows)) >= 2 =>
      LET labels == rendered[e].trend.labels
      IN /\ rendered[e].trend.shown
         /\ Range(labels) = WeeksOf(rendered[e].rows)
         /\ \A i \in DOMAIN labels : \A j \in DOMAIN labels :
              i < j => LeZero(compareWeekRanges(labels[i], labels[j]))

\* The buckets the trend chooses from, with their hours over the tab's rows:
\* the categories in category mode, the tasks in task mode
TrendBuckets(buckets, levelMode) ==
  IF levelMode = "category"
  THEN [name \in Range(CategoryNames) |->
          CategoryHours(buckets, CHOOSE c \in DOMAIN CategoryNames :
                                   CategoryNames[c] = name)]
  ELSE [name \in DOMAIN buckets |-> buckets[name].totalHours]

\* C9: in both level modes the trend's datasets are the buckets of the most
\* hours over the tab's rows, 3 of them or all of those with hours if there
\* are fewer, followed by exactly one total series: no bucket left out has
\* strictly more hours than one that is included.
C9_TrendTopThree ==
  \A e \in Drawn :
    rendered[e].trend.shown =>
      LET datasets == rendered[e].trend.datasets
          n == Len(datasets)
          hours == TrendBuckets(rendered[e].buckets, globalLevelMode)
          withHours == {name \in DOMAIN hours : hours[name] > 0}
          included == {datasets[i].label : i \in 1..(n - 1)}
      IN /\ n >= 1
         /\ datasets[n].label \in {"Total Hours", "Total Cost"}
         /\ \A i \in 1..(n - 1) : datasets[i].label \notin {"Total Hours", "Total Cost"}
         /\ included \subseteq withHours
         /\ Cardinality(included) = n - 1
         /\ n - 1 = (IF Cardinality(withHours) < 3 THEN Cardinality(withHours) ELSE 3)
         /\ \A out \in withHours \ included : \A in \in included :
              hours[out] <= hours[in]

\* C10: a tab whose rows hold fewer than 2 distinct week labels gets no trend:
\* no series is built and initializeTimeLineChart is not called; a trend that
\* is drawn has at least 2 points.
C10_NoOnePointTrend ==
  \A e \in Drawn :
    LET trend == rendered[e].trend
    IN /\ Cardinality(WeeksOf(rendered[e].rows)) < 2 =>
            (~trend.shown /\ trend.datasets = <<>>)
       /\ trend.shown =>
            /\ Len(trend.labels) >= 2
            /\ \A i \in DOMAIN trend.datasets : Len(trend.datasets[i].data) >= 2

\* A tab drawn from rows of one week: no trend
C10_Witness ==
  \E e \in Drawn :
    /\ Cardinality(WeeksOf(rendered[e].rows)) = 1
    /\ Len(rendered[e].rows) = 2
    /\ ~rendered[e].trend.shown


\* C5: of the updateChartData calls that follow one another less than the
\* wait apart only the last is executed, once, the wait after it was made and
\* with its arguments: every run of the debounced function is the run of a
\* call that no later call followed within the wait, a call is run at most
\* once, and a call with no run is either superseded or still pending.
C5_DebounceLastCallWins ==
  /\ \A k \in DOMAIN execs :
       LET e == execs[k]
       IN /\ e.call \in DOMAIN calls
          /\ e.t = calls[e.call].t + Wait
          /\ e.chart = calls[e.call].chart
          /\ e.data = calls[e.call].data
          /\ \A j \in DOMAIN calls : j > e.call => calls[j].t >= e.t
          /\ \A m \in DOMAIN execs : m # k => execs[m].call # e.call
  /\ \A c \in DOMAIN calls :
       \/ \E k \in DOMAIN execs : execs[k].call = c
       \/ c < Len(calls) /\ calls[c + 1].t <= calls[c].t + Wait
       \/ timeout # NoTimer /\ timeout[1].call = c /\ now <= timeout[1].due
  /\ execs # <<>> =>
       LET e == execs[Len(execs)]
       IN e.applied => chartData[e.chart].data = e.data

\* Three calls, each less than the wait after the one before and with other
\* data than the last, and the one run that follows
C5_Witness ==
  /\ Len(calls) = 3
  /\ calls[1].t < calls[2].t
  /\ calls[2].t < calls[3].t
  /\ calls[3].t - calls[1].t < Wait
  /\ calls[1].data # calls[3].data
  /\ calls[2].chart = calls[3].chart
  /\ Len(execs) = 1
  /\ execs[1].call = 3
  /\ execs[1].applied
  /\ chartData[calls[3].chart].data = calls[3].data

\* C6: the result of a refresh is never committed to employeesData, nor drawn,
\* once a refresh that started later has completed: of two fetches in flight
\* together the later-started one wins, in whichever order they complete.
C6_LatestFetchWins ==
  \A f \in DOMAIN fetches : \A g \in DOMAIN fetches :
    (/\ f < g
     /\ fetches[f].kind = "refresh"
     /\ fetches[g].kind = "refresh"
     /\ fetches[g].status = "done") =>
      /\ committedBy # f
      /\ \A i \in DOMAIN employeesData : employeesData[i].oid # f
      /\ \A i \in DOMAIN renderLog.source : renderLog.source[i].oid # f

-----------------------------------------------------------------------------
(* Properties of the filter functions *)

\* The filterData calls that returned
Returned == {i \in DOMAIN filterCalls :
               filterCalls[i].fn = "filterData" /\ ~filterCalls[i].raised}

\* The tasks TASK_CATEGORIES lists for the category of a name
TasksOfCategory(name) ==
  UNION {Range(TASK_CATEGORIES[c][2]) : c \in {d \in DOMAIN TASK_CATEGORIES :
                                                 TASK_CATEGORIES[d][1] = name}}

\* The row has nonzero hours in a task of the category
HasHoursInCategory(row, name) ==
  \E task \in TasksOfCategory(name) : RowHours(row, task) # 0

\* Only the task category of the filter state restricts
OnlyCategoryRestricts ==
  /\ filterState.dateRange = [start |-> "all", end |-> "all"]
  /\ filterState.activeEmployee = "all"
  /\ filterState.searchQuery = ""

\* C11: under a filter state whose taskCategory is a category name (and whose
\* other fields restrict nothing) filterData keeps exactly the rows that have
\* nonzero hours in at least one task TASK_CATEGORIES lists for that category.
C11_CategoryRestriction ==
  (OnlyCategoryRestricts /\ filterState.taskCategory \in Range(CategoryNames)) =>
    \A i \in Returned :
      \A k \in DOMAIN filterCalls[i].data :
        (filterCalls[i].data[k] \in Range(filterCalls[i].result))
          <=> HasHoursInCategory(filterCalls[i].data[k], filterState.taskCategory)

\* date <= other for two derived start dates, as day numbers that may be NaN
DateLeq(date, other) == date # NaN /\ other # NaN /\ date[1] <= other[1]

\* The start date of the row's week is within the inclusive bounds; "all" is
\* no bound
WeekWithin(row, state) ==
  /\ state.dateRange.start = "all"
       \/ DateLeq(parseStartDateFromWeekRange[state.dateRange.start],
                  parseStartDateFromWeekRange[row.WeekRange])
  /\ state.dateRange.end = "all"
       \/ DateLeq(parseStartDateFromWeekRange[row.WeekRange],
                  parseStartDateFromWeekRange[state.dateRange.end])

\* row.User contains the active employee, whatever the case of the letters
UserMatches(row, state) ==
  state.activeEmployee = "all"
    \/ Includes(ToLowerCase(Chars[row.User]), ToLowerCase(Chars[state.activeEmployee]))

\* A string-valued field of the row contains the query, whatever the case
SearchMatches(row, state) ==
  state.searchQuery = ""
    \/ \E v \in {row.User, row.WeekRange} :
         Includes(ToLowerCase(Chars[v]), ToLowerCase(Chars[state.searchQuery]))

\* The category restriction: nonzero hours in a task of the category
CategoryMatches(row, state) ==
  state.taskCategory = "all" \/ HasHoursInCategory(row, state.taskCategory)

\* C12: filterData returns, in input order, exactly the rows that satisfy all
\* four predicates: week within the inclusive bounds, User contains the active
\* employee, a string field contains the query, and the category restriction;
\* a field of 'all' or '' restricts nothing.
C12_FourPredicates ==
  (filterState.taskCategory \in {"all"} \cup Range(CategoryNames)) =>
    \A i \in Returned :
      LET Keep(row) == /\ WeekWithin(row, filterState)
                       /\ UserMatches(row, filterState)
                       /\ SearchMatches(row, filterState)
                       /\ CategoryMatches(row, filterState)
      IN filterCalls[i].result = SelectSeq(filterCalls[i].data, Keep)

\* The same with the task category at 'all': the three other predicates
FilterWithoutCategory ==
  (filterState.taskCategory = "all") =>
    \A i \in Returned :
      LET Keep(row) == /\ WeekWithin(row, filterState)
                       /\ UserMatches(row, filterState)
                       /\ SearchMatches(row, filterState)
      IN filterCalls[i].result = SelectSeq(filterCalls[i].data, Keep)

\* The filterDataByWeekRange calls made
WeekRangeCalls == {i \in DOMAIN filterCalls : filterCalls[i].fn = "filterDataByWeekRange"}

\* C13: under the filter state ('all', 'all'), 'all', '', 'all' filterData
\* returns its input, the same rows in the same order, and
\* filterDataByWeekRange(data, 'all', 'all') returns data.
C13_IdentityLaw ==
  /\ (filterState = DefaultFilterState) =>
       \A i \in Returned : filterCalls[i].result = filterCalls[i].data
  /\ (filterState.dateRange = [start |-> "all", end |-> "all"]) =>
       \A i \in WeekRangeCalls : filterCalls[i].result = filterCalls[i].data

\* filterData has returned two different rows under the filter state that
\* restricts nothing
C13_Witness ==
  /\ filterState = DefaultFilterState
  /\ \E i \in Returned :
       /\ Len(filterCalls[i].data) = 2
       /\ filterCalls[i].data[1] # filterCalls[i].data[2]
       /\ filterCalls[i].result = filterCalls[i].data

C17_AllIsUnbounded ==
  \A i \in DOMAIN filterCalls :
    /\ \A pair \in filterCalls[i].compared : pair[1] # "all" /\ pair[2] # "all"
    /\ (filterCalls[i].fn = "filterDataByWeekRange") =>
         LET Keep(row) == WeekWithin(row, filterState)
         IN filterCalls[i].result = SelectSeq(filterCalls[i].data, Keep)
    /\ (/\ filterCalls[i].fn = "validateWeekSelection"
        /\ "all" \in {filterState.dateRange.start, filterState.dateRange.end}) =>
         filterCalls[i].result = TRUE

\* filterDataByWeekRange was called with one bound at 'all' and a week as the
\* other, compared weeks with that bound and dropped a row
C17_Witness ==
  /\ filterState.dateRange.start = "all"
  /\ filterState.dateRange.end # "all"
  /\ \E i \in WeekRangeCalls :
       /\ filterCalls[i].compared # {}
       /\ filterCalls[i].result # <<>>
       /\ Len(filterCalls[i].result) < Len(filterCalls[i].data)

-----------------------------------------------------------------------------
(* Properties of compareWeekRanges *)

\* The start of each label that reads '<month abbreviation> <day>', as
\* <<year, month, day>>: the year in parentheses, else the current year
StartOf ==
  [l \in {"Mar 10 - Mar 15 (2025)", "Mar 17 - Mar 22 (2025)", "Dec 29 - Jan 3 (2024)",
          "Mar 10 - Mar 15"} |->
     CASE l = "Mar 10 - Mar 15 (2025)" -> <<2025, 3, 10>>
       [] l = "Mar 17 - Mar 22 (2025)" -> <<2025, 3, 17>>
       [] l = "Dec 29 - Jan 3 (2024)" -> <<2024, 12, 29>>
       [] l = "Mar 10 - Mar 15" -> <<CurrentYear, 3, 10>>]

\* The labels that do not read '<month abbreviation> <day>'
Malformed == {"2025-03-10", "March 10 - March 15 (2025)", "mar 10 - mar 15 (2025)"}

\* x before y by year, then month, then day
Before(x, y) ==
  \/ x[1] < y[1]
  \/ x[1] = y[1] /\ x[2] < y[2]
  \/ x[1] = y[1] /\ x[2] = y[2] /\ x[3] < y[3]

\* The sign of a comparator result that is a number
Sign(x) == IF x[1] < 0 THEN -1 ELSE IF x[1] > 0 THEN 1 ELSE 0

\* The positions of the compared labels that read '<month abbreviation> <day>'
WellFormed == {i \in DOMAIN comparedLabels : comparedLabels[i] \in DOMAIN StartOf}

C16_MalformedIsEpoch ==
  (comparisons # <<>>) =>
    \A i \in DOMAIN comparedLabels :
      (comparedLabels[i] \in Malformed) =>
        /\ comparisons.dates[i] = Num(0)
        /\ \A j \in DOMAIN comparedLabels :
             /\ comparisons.diffs[<<i, j>>] # NaN
             /\ comparisons.diffs[<<j, i>>] # NaN
             /\ (j \in WellFormed) => LeZero(comparisons.diffs[<<i, j>>])

\* Of the labels that do not read '<month abbreviation> <day>', those that
\* match nothing get the epoch
NoMatchIsEpoch ==
  (comparisons # <<>>) =>
    \A i \in DOMAIN comparedLabels :
      (comparedLabels[i] = "2025-03-10") =>
        /\ comparisons.dates[i] = Num(0)
        /\ \A j \in WellFormed : LeZero(comparisons.diffs[<<i, j>>])


-----------------------------------------------------------------------------
(* C18: no percentage over a total of 0 *)

\* Every item of the output has hours, and the total the percentages of a
\* non-empty output divide by is not 0
Guarded(items, total) ==
  /\ \A i \in DOMAIN items : items[i].hours > 0
  /\ items # <<>> => total # 0

\* C18: no percentage label is computed with a total of 0, and every item of
\* the output has hours > 0: here for PieChart.prepareChartData and
\* preparePieData, on every input
C18_NoZeroTotal ==
  /\ Guarded(percentCall.items, percentCall.total)
  /\ \A i \in DOMAIN percentCall.items : percentCall.items[i].percentage.kind = "finite"

\* The same for the page: initializeTaskPieChart, the bar chart and the
\* percentage of updateEmployeeSummary
PageGuarded ==
  \A e \in Range(EmployeeTabs) :
     /\ Guarded(rendered[e].pie.items, rendered[e].pie.total)
     /\ \A i \in DOMAIN rendered[e].bar : rendered[e].bar[i].hours > 0
     /\ rendered[e].summary.mostTimeActivity \notin {"None", "N/A"}
          => rendered[e].summary.totalHours > 0


-----------------------------------------------------------------------------
(* C19: the color caches are filled before any chart is computed *)

\* Every configured category and every task of one has its entries
Filled(caches) ==
  /\ ColoredTasks \subseteq DOMAIN caches.task
  /\ ColoredTasks \subseteq DOMAIN caches.taskBorder
  /\ DOMAIN CATEGORY_COLORS \subseteq DOMAIN caches.category
  /\ DOMAIN CATEGORY_COLORS \subseteq DOMAIN caches.categoryBorder

\* updateAllEmployeeCharts has run at least once
ChartsComputed == \E e \in Range(EmployeeTabs) : rendered[e].state # "blank"

\* Every entry of the caches before is an entry of the caches after
Kept(before, after) ==
  /\ \A n \in DOMAIN before.task : n \in DOMAIN after.task /\ after.task[n] = before.task[n]
  /\ \A n \in DOMAIN before.taskBorder :
        n \in DOMAIN after.taskBorder /\ after.taskBorder[n] = before.taskBorder[n]
  /\ \A n \in DOMAIN before.category :
        n \in DOMAIN after.category /\ after.category[n] = before.category[n]
  /\ \A n \in DOMAIN before.categoryBorder :
        n \in DOMAIN after.categoryBorder /\ after.categoryBorder[n] = before.categoryBorder[n]

\* C19: every call of updateAllEmployeeCharts, whichever handler makes it,
\* comes after initializeColorCaches has completed, and a step that removes
\* or changes an entry of a color cache is a call of clearColorCaches
C19_CachesBeforeCharts ==
  /\ [](ChartsComputed => Filled(colorCaches))
  /\ [][(rendered' # rendered \/ renderLog' # renderLog) => Filled(colorCaches)]_vars
  /\ [][Kept(colorCaches, colorCaches')]_vars
  /\ [][Kept(utilColorCaches, utilColorCaches') \/ ClearColorCaches]_vars

\* Charts are drawn in cost mode, on filled caches, while the caches of
\* color-utils have been filled too
C19_Witness ==
  /\ \E e \in Range(EmployeeTabs) : rendered[e].state = "drawn"
  /\ globalDisplayMode = "cost"
  /\ Filled(colorCaches)
  /\ Filled(utilColorCaches)


-----------------------------------------------------------------------------
(* C20: the color getters *)

\* The lookup returned the gray fallback wherever the name is not configured,
\* and everywhere when the caches were empty
GrayWhereUnconfigured(l) ==
  /\ (l.empty \/ l.name \notin ColoredTasks)
       => l.task = GrayFill /\ l.taskBorder = GrayBorder
  /\ (l.empty \/ l.name \notin DOMAIN CATEGORY_COLORS)
       => l.category = GrayFill /\ l.categoryBorder = GrayBorder

\* Two lookups of a name on filled caches returned the same four strings
SameColors(l, m) ==
  (l.name = m.name /\ ~l.empty /\ ~m.empty)
    => /\ l.task = m.task
       /\ l.taskBorder = m.taskBorder
       /\ l.category = m.category
       /\ l.categoryBorder = m.categoryBorder

\* C20: once initializeColorCaches has been called, however often, the four
\* getters return the same string for a name on every call; for a name that
\* is not configured, and for every name while the caches are empty, they
\* return '#ccccccCC' (fill) and '#cccccc' (border)
C20_StableGrayFallback ==
  \A i \in DOMAIN colorLookups :
     /\ GrayWhereUnconfigured(colorLookups[i])
     /\ \A j \in DOMAIN colorLookups : SameColors(colorLookups[i], colorLookups[j])

\* The same for the names Object.prototype has no property for
OwnNamesStableGray ==
  \A i \in DOMAIN colorLookups :
     /\ colorLookups[i].name \notin ObjectPrototypeNames
          => GrayWhereUnconfigured(colorLookups[i])
     /\ \A j \in DOMAIN colorLookups : SameColors(colorLookups[i], colorLookups[j])


-----------------------------------------------------------------------------
(* C21: the colors of the tasks *)

\* The red, green and blue channels of a color string
Channels(color) ==
  <<ParseHex(WithoutHash(color), 0), ParseHex(WithoutHash(color), 2),
    ParseHex(WithoutHash(color), 4)>>

\* v is c scaled by (100 + p) percent, rounded to the nearest integer (a half
\* upwards) and limited to 0..255
IsScaled(v, c, p) ==
  /\ v \in 0..255
  /\ \/ v = 255 /\ c * (100 + p) + 50 >= 25500
     \/ v = 0 /\ c * (100 + p) + 50 < 100
     \/ 100 * v <= c * (100 + p) + 50 /\ c * (100 + p) + 50 < 100 * v + 100

\* The percent of the task number k (from 1) among n tasks
PercentOf(n, k) == IF n = 1 THEN 0 ELSE ((k - 1) - (n \div 2)) * 15

\* The cached color of the task number k of category number t is the base
\* color of the category with every channel scaled by its percent
TaskColorDerived(caches, t, k) ==
  LET taskName == TASK_CATEGORIES[t][2][k]
      base == Channels(CATEGORY_COLORS[TASK_CATEGORIES[t][1]])
      border == caches.taskBorder[taskName]
      p == PercentOf(Len(TASK_CATEGORIES[t][2]), k)
  IN /\ Len(border) = 7 /\ border[1] = "#"
     /\ \A ch \in 1..3 : IsScaled(Channels(border)[ch], base[ch], p)
     /\ caches.task[taskName] = border \o <<"C", "C">>
     /\ Len(TASK_CATEGORIES[t][2]) = 1 => Channels(border) = base

\* C21: once initializeColorCaches has run, the task at index i of a category
\* with N tasks has the base color of the category with every channel c
\* turned into min(255, max(0, round(c * (100 + p) / 100))), where
\* p = (i - floor(N / 2)) * 15, and p = 0 when N = 1; every channel is in
\* 0..255 and the only task of a category has the channels of the base color
C21_TaskColorDerivation ==
  \A caches \in {colorCaches, utilColorCaches} :
     caches # NoColorCaches =>
       \A t \in DOMAIN TASK_CATEGORIES :
          \A k \in DOMAIN TASK_CATEGORIES[t][2] : TaskColorDerived(caches, t, k)

\* The caches are filled; a channel of a task color is limited to 255, one
\* is darkened, and the only task of Advertising has the base channels
C21_Witness ==
  /\ colorCaches # NoColorCaches
  /\ utilColorCaches # NoColorCaches
  /\ Channels(colorCaches.taskBorder["Social - Internal Call"])[1] = 255
  /\ Channels(colorCaches.taskBorder["BD - Research"]) = <<53, 123, 56>>
  /\ Channels(colorCaches.taskBorder["Ads"]) = <<233, 30, 99>>


-----------------------------------------------------------------------------
(* C22: rows with any User cell *)

\* The positive hours of the task in the rows
PositiveHours(rows, task) ==
  SumSeq([i \in DOMAIN rows |-> CountedHours(rows[i], task)])

\* The call returned, and what it aggregated is every positive value of the
\* rows it kept
Aggregated(call) ==
  /\ ~call.raised
  /\ call.buckets # <<>> =>
       \A task \in Range(CsvTaskColumns) :
          call.buckets[task].totalHours = PositiveHours(call.rows, task)

\* C22: calculateDetailedTaskData, filterData and initializeEmployeeCharts
\* never raise, whatever the User cell of a row is (blank, null, not a
\* string), and the other rows are aggregated
C22_PermissiveRows == Aggregated(rowCall)

\* The same on rows whose User cell is a string, the empty string included
StringRowsAggregated ==
  (\A i \in DOMAIN rowCall.data : ~UserRaises(rowCall.data[i])) => Aggregated(rowCall)


-----------------------------------------------------------------------------
(* C23: the fetch methods and the cached snapshot *)

\* The method number k succeeded: it returned a text
Succeeded(call, k) == call.outcomes[k] # "throws"

\* The methods were tried in order up to the first that succeeded
TriedInOrder(call) ==
  /\ \A k \in 1..(call.tried - 1) : ~Succeeded(call, k)
  /\ call.tried < MethodCount => Succeeded(call, call.tried)

\* The snapshot is used only when every method failed and it is at most 24
\* hours old; without one a DataFetchError is raised
CacheOnlyAsLastResort(call) ==
  /\ call.source = "cache" =>
       /\ \A k \in 1..MethodCount : ~Succeeded(call, k)
       /\ call.cached.stored /\ call.at - call.cached.timestamp <= CacheHours
       /\ call.data = call.cached.data
  /\ (\A k \in 1..MethodCount : ~Succeeded(call, k)) =>
       IF call.cached.stored /\ call.at - call.cached.timestamp <= CacheHours
       THEN call.source = "cache"
       ELSE call.raised = "DataFetchError"

\* The data of a method that succeeded is what the call returns or fails on
FirstSuccessSupplies(call) ==
  (\E k \in 1..MethodCount : Succeeded(call, k)) =>
     IF ParseCsv(call.outcomes[call.tried]).errors = 0
          /\ ParseCsv(call.outcomes[call.tried]).data # <<>>
     THEN call.source = "method" /\ call.data = ParseCsv(call.outcomes[call.tried]).data
     ELSE call.raised = "DataFetchError"

\* The snapshot holds rows
SnapshotHoldsRows == snapshot.stored => snapshot.data \in {<<"A1", "A2">>, <<"B1">>}

\* C23: the methods are tried in order and the first that succeeds supplies
\* the data; the snapshot is returned only when every method failed and it is
\* at most 24 hours old, and a DataFetchError is raised otherwise; the
\* snapshot is only ever the rows of a fetch that parsed, at least one
C23_FetchFallback ==
  /\ SnapshotHoldsRows
  /\ fetchCall.fn # "none" =>
       /\ TriedInOrder(fetchCall)
       /\ CacheOnlyAsLastResort(fetchCall)
       /\ FirstSuccessSupplies(fetchCall)

\* The same for the calls in which no method returned the empty text
FallbackOnTexts ==
  /\ SnapshotHoldsRows
  /\ (fetchCall.fn # "none" /\ \A k \in 1..MethodCount : fetchCall.outcomes[k] # "") =>
       /\ TriedInOrder(fetchCall)
       /\ CacheOnlyAsLastResort(fetchCall)
       /\ FirstSuccessSupplies(fetchCall)

\* The sum of the totals of all the task columns of a call, and of all its
\* category types
TaskTotal(call) ==
  SumSeq([i \in DOMAIN call.taskCategories |-> call.byCategory[call.taskCategories[i]]])
TypeTotal(call) == SumSeq([t \in DOMAIN call.byType |-> call.byType[t].hours])

\* Every task column of the call is listed by exactly one category
EachInOneCategory(call) ==
  \A i \in DOMAIN call.taskCategories :
    Cardinality({c \in DOMAIN TASK_CATEGORIES :
                   call.taskCategories[i] \in Range(TASK_CATEGORIES[c][2])}) = 1

\* The totals of a call: all the tasks together have at least the hours of
\* any one category, and exactly the hours of all the categories where each
\* task column has its category
TotalsConsistent(call) ==
  /\ \A t \in DOMAIN call.byType : TaskTotal(call) >= call.byType[t].hours
  /\ EachInOneCategory(call) => TypeTotal(call) = TaskTotal(call)

\* C24: for every row set, the hours of all the task buckets together are at
\* least the hours of any single category bucket, and the hours of all the
\* category buckets together equal those of all the task buckets when every
\* task column belongs to exactly one category of TASK_CATEGORIES
C24_TotalsConsistent == totalsCall.called => TotalsConsistent(totalsCall)

\* The same where no row has an hours value below 0, and the sum over the
\* categories in every call
NonNegativeTotalsConsistent ==
  /\ totalsCall.called /\ (\A task \in DOMAIN totalsCall.byCategory :
                             totalsCall.byCategory[task] >= 0)
       => TotalsConsistent(totalsCall)
  /\ totalsCall.called /\ EachInOneCategory(totalsCall)
       => TypeTotal(totalsCall) = TaskTotal(totalsCall)

\* The buckets of calculateDetailedTaskData, which count hours > 0 only: on
\* every tab the task buckets together have at least the hours of any category
PageBucketsDominate ==
  \A e \in Computed : \A c \in DOMAIN TASK_CATEGORIES :
    BucketHours(rendered[e].buckets) >= CategoryHours(rendered[e].buckets, c)

\* A step of the reset handler or of the upload handler
ResetOrUpload == ResetFilter \/ \E d \in Sheets : FileUpload(d)

\* A step in which the continuation of a refresh commits the rows it fetched
RefreshCommits ==
  \E f \in 1..MaxFetches, d \in Sheets :
    /\ f \in DOMAIN fetches
    /\ fetches[f].kind = "refresh"
    /\ FetchReturns(f, d)

\* A refresh that finds the week range at 'all' commits all the new rows
UnrestrictedRefresh ==
  [][RefreshCommits /\ activeStartWeek = "all" /\ activeEndWeek = "all"
       => filteredEmployeesData' = employeesData']_vars

\* C25: the reset handler, and the upload handler, leave activeStartWeek and
\* activeEndWeek at 'all', so that every later refresh commits
\* filteredEmployeesData equal to the whole new row set until a filter is
\* applied
C25_ResetIsDurable ==
  /\ [][ResetOrUpload => activeStartWeek' = "all" /\ activeEndWeek' = "all"]_vars
  /\ UnrestrictedRefresh

\* Reset and upload show all the rows at once
ResetShowsAllRows == [][ResetOrUpload => filteredEmployeesData' = employeesData']_vars

\* A refresh commits the rows of the active week range, whatever was reset
RefreshKeepsActiveRange ==
  [][RefreshCommits
       => filteredEmployeesData' =
            filterDataByWeekRange(employeesData', activeStartWeek, activeEndWeek)]_vars

\* The updateChartData calls made for a chart, and the data of the last of them
CallsFor(chart) == {i \in DOMAIN calls : calls[i].chart = chart}
LastDataFor(chart) ==
  calls[CHOOSE i \in CallsFor(chart) : \A j \in CallsFor(chart) : j <= i].data

\* Once no timer is pending, chart has the data of the last call made for it
Delivered(chart) ==
  timeout = NoTimer /\ CallsFor(chart) # {} /\ ~chartData[chart].destroyed
    => chartData[chart].data = LastDataFor(chart)

\* C26: every chart for which updateChartData was called and which is not
\* destroyed gets the most recent data passed for it, also when the updates
\* of two charts are requested less than 250 ms apart: an update for one
\* chart never cancels the pending update of another
C26_PerChartDelivery == \A chart \in ChartObjects : Delivered(chart)

\* The chart of the last call of all gets its data, and so does every chart
\* while no call for another chart was made
LastCalledChartDelivered ==
  /\ calls # <<>> => Delivered(calls[Len(calls)].chart)
  /\ \A chart \in ChartObjects :
       (\A i \in DOMAIN calls : calls[i].chart = chart) => Delivered(chart)

\* The chartData a cache miss computes from the detailedTaskData of the call
\* that last reached the pie chart of tab e
OwnPieData(e) ==
  PieChartData(rendered[e].buckets, CsvTaskColumns, globalLevelMode, globalDisplayMode)

\* C27: the chart data a call of initializeTaskPieChart uses is computed from
\* the detailedTaskData of that same call, also after calls in which the
\* creation of the chart failed once the data was computed: an entry of
\* chartDataCache computed from the data of an earlier call under the same
\* key is never used after the data changed
C27_NoStalePieData == \A e \in Computed : rendered[e].pie = OwnPieData(e)

\* The same on a page where the creation of the pie chart succeeds
NoStalePieDataWhenCreated == env.pieCanvas => C27_NoStalePieData

\* A call whose chart creation failed used the entry an earlier call left
StaleEntryUsed ==
  \E e \in Computed :
    /\ rendered[e].state = "threw"
    /\ rendered[e].pie # OwnPieData(e)
    /\ CacheKey(e, globalLevelMode, globalDisplayMode) \in DOMAIN chartDataCache

\* A step in which the continuation of initializeDashboard commits the rows
\* its fetch returned from the remote source
InitCommits ==
  \E f \in 1..MaxFetches, d \in Sheets :
    /\ f \in DOMAIN fetches
    /\ fetches[f].kind = "init"
    /\ Len(d) > 0
    /\ FetchReturns(f, d)

\* At most one auto-refresh interval is active
AtMostOneInterval == Cardinality(intervals) <= 1

\* C28: when the fetch of initializeDashboard returns rows from the remote
\* source (the indicator was set to 'connected'), an auto-refresh interval is
\* installed, and at no time is more than one such interval active
C28_AutoRefreshArmed ==
  /\ [][InitCommits /\ windowDataSourceConnected' /\ ~Threw(rendered')
          => autoRefreshIntervalId' # 0 /\ autoRefreshIntervalId' \in intervals']_vars
  /\ []AtMostOneInterval

\* No interval is ever installed: the dataSourceConnected that
\* initializeDashboard tests stays false, whatever the indicator shows
NeverArmed == ~dataSourceConnected /\ autoRefreshIntervalId = 0 /\ intervals = {}

\* The page after a connected initial load that drew every tab
ConnectedLoadDone ==
  /\ windowDataSourceConnected
  /\ committedBy # 0
  /\ fetches[committedBy].kind = "init"
  /\ employeesData # <<>>
  /\ ~Threw(rendered)
  /\ intervals = {}

\* The controls show the modes of dashboardState
ControlsShowState ==
  /\ elements.displayMode = dashboardModes.displayMode
  /\ elements.levelMode = dashboardModes.levelMode

\* C29: after any sequence of operations of the DisplayModeSelector the
\* values of the two controls equal dashboardState's displayMode and
\* levelMode, displayMode is 'hours' or 'cost' and levelMode 'category' or
\* 'task'; reset() completes without error and leaves levelMode 'category'
C29_SelectorMatchesState ==
  /\ ControlsShowState
  /\ dashboardModes.displayMode \in {"hours", "cost"}
  /\ dashboardModes.levelMode \in {"category", "task"}
  /\ selectorCall.op = "reset"
       => ~selectorCall.raised /\ dashboardModes.levelMode = "category"

\* What holds: dashboardState keeps valid modes, a control that holds a valid
\* mode shows the mode of dashboardState, and no operation raises but reset
SelectorApartFromReset ==
  /\ dashboardModes.displayMode \in {"hours", "cost"}
  /\ dashboardModes.levelMode \in {"category", "task"}
  /\ elements.levelMode \in LevelOptions
       => elements.levelMode = dashboardModes.levelMode
  /\ elements.displayMode \in DisplayOptions
       => elements.displayMode = dashboardModes.displayMode
  /\ selectorCall.raised => selectorCall.op = "reset"

\* reset() raised and left the level mode at 'task'
ResetRaised ==
  /\ selectorCall.op = "reset"
  /\ selectorCall.raised
  /\ dashboardModes.levelMode = "task"
  /\ elements.displayMode # dashboardModes.displayMode

\* The data of the total series, which is the last of the datasets
TotalSeries(datasets) == datasets[Len(datasets)].data

\* For each week the positive hours of the given task columns in the rows
\* of the week, as hours or as cost at the rate of the tab
WeeklyPositive(rows, weeks, tasks, hourlyRate, displayMode) ==
  [w \in DOMAIN weeks |->
     IF displayMode = "cost" THEN WeekHours(rows, weeks[w], tasks) * hourlyRate
     ELSE WeekHours(rows, weeks[w], tasks)]

\* The task columns of the sheet that TASK_CATEGORIES lists
CategorisedColumns ==
  LET Listed(task) == \E c \in DOMAIN TASK_CATEGORIES : task \in Range(TASK_CATEGORIES[c][2])
  IN SelectSeq(CsvTaskColumns, Listed)

\* The total series the tab e would get in category mode and in task mode
\* from the rows and weeks it was drawn with
CategoryModeTotal(e) ==
  TotalSeries(CategoryTrend(rendered[e].rows, rendered[e].trend.labels,
                            getHourlyRate(Chars[e]), globalDisplayMode))
TaskModeTotal(e) ==
  TotalSeries(TaskTrend(rendered[e].rows, rendered[e].trend.labels,
                        DetailedBreakdown(rendered[e].buckets, CsvTaskColumns),
                        CsvTaskColumns, getHourlyRate(Chars[e]), globalDisplayMode))

\* The positive hours of all the task columns of the rows of e, per week
AllColumnsTotal(e) ==
  WeeklyPositive(rendered[e].rows, rendered[e].trend.labels, CsvTaskColumns,
                 getHourlyRate(Chars[e]), globalDisplayMode)

\* C30: the Total series of the trend does not depend on the level mode: for
\* every row set and every week the value built in category mode equals the
\* one built in task mode, and both are the sum of the positive hours of all
\* the task columns of the rows of the week (times the rate in cost mode),
\* the columns that belong to no category included
C30_TotalSameInBothModes ==
  \A e \in Drawn :
    rendered[e].trend.shown =>
      /\ CategoryModeTotal(e) = TaskModeTotal(e)
      /\ TaskModeTotal(e) = AllColumnsTotal(e)
      /\ TotalSeries(rendered[e].trend.datasets) = AllColumnsTotal(e)

\* What holds: the total drawn is the one of the level mode, the total of
\* task mode covers all the task columns, the total of category mode the
\* columns that a category lists
TotalsPerMode ==
  \A e \in Drawn :
    rendered[e].trend.shown =>
      /\ TotalSeries(rendered[e].trend.datasets) =
           (IF globalLevelMode = "category" THEN CategoryModeTotal(e)
            ELSE TaskModeTotal(e))
      /\ TaskModeTotal(e) = AllColumnsTotal(e)
      /\ CategoryModeTotal(e) =
           WeeklyPositive(rendered[e].rows, rendered[e].trend.labels,
                          CategorisedColumns, getHourlyRate(Chars[e]),
                          globalDisplayMode)

\* A trend drawn in category mode whose total leaves out hours of Travel
TravelLeftOut ==
  \E e \in Drawn :
    /\ rendered[e].trend.shown
    /\ globalLevelMode = "category"
    /\ TotalSeries(rendered[e].trend.datasets) # AllColumnsTotal(e)
    /\ \E i \in DOMAIN rendered[e].rows : rendered[e].rows[i].hrs["Travel"] > 0

====
